---- MODULE Spec2Model ----
(***************************************************************************)
(* Verification model of the bulletproofs_gadgets constraint gadgets.      *)
(*                                                                         *)
(* The gadgets build rank-1 constraint systems over the scalar field of    *)
(* curve25519 for points of the "Sonny" twisted Edwards curve (a = -1, d a *)
(* non-square, cofactor 8, base field = that scalar field).  The model     *)
(* keeps the gadgets' code line by line and scales the field down to a     *)
(* prime small enough to enumerate: FieldP = 17, a = -1, d = 7, a curve    *)
(* with 24 = 8 * 3 points whose 8-torsion is cyclic, like the original.    *)
(*                                                                         *)
(* A linear combination is a sequence of terms <<variable, coefficient>>,  *)
(* as in bulletproofs::r1cs::LinearCombination.  Variables are integers:   *)
(* 0 is Variable::One, -j the j-th committed variable, and 3i-2, 3i-1, 3i  *)
(* the left, right and output wire of the i-th multiplication gate.        *)
(***************************************************************************)
EXTENDS Integers, Sequences, FiniteSets, TLC

VARIABLES op, inp, pc, cs, loc, proof, res

vars == <<op, inp, pc, cs, loc, proof, res>>

-----------------------------------------------------------------------------
(* Field arithmetic (curve25519_dalek::scalar::Scalar, scaled down).       *)

FieldP == 17

Fq == 0 .. (FieldP - 1)

FAdd(x, y) == (x + y) % FieldP
FSub(x, y) == (x + FieldP - y) % FieldP
FMul(x, y) == (x * y) % FieldP
FNeg(x) == (FieldP - x) % FieldP

\* Scalar::from_bytes_mod_order(fe.to_bytes()): the bytes of a field element
\* read back as a number and reduced modulo the group order.
fq_as_scalar(x) == x % FieldP

\* FieldElement::inverse of a non-zero element.
FInv(x) == CHOOSE w \in Fq : FMul(x, w) = 1

EDWARDS_A == FieldP - 1
EDWARDS_D == 7

-----------------------------------------------------------------------------
(* Reference curve arithmetic (zerocaf), on affine points <<x, y>>.        *)

OnCurve(x, y) ==
    FAdd(FMul(EDWARDS_A, FMul(x, x)), FMul(y, y))
        = FAdd(1, FMul(EDWARDS_D, FMul(FMul(x, x), FMul(y, y))))

CurvePoints == {pt \in Fq \X Fq : OnCurve(pt[1], pt[2])}

Identity == <<0, 1>>

\* P1 + P2 in the reference arithmetic (the twisted Edwards group law).
RefAdd(p1, p2) ==
    LET t == FMul(EDWARDS_D, FMul(FMul(p1[1], p2[1]), FMul(p1[2], p2[2])))
        x == FMul(FAdd(FMul(p1[1], p2[2]), FMul(p1[2], p2[1])), FInv(FAdd(1, t)))
        y == FMul(FSub(FMul(p1[2], p2[2]), FMul(EDWARDS_A, FMul(p1[1], p2[1]))),
                  FInv(FSub(1, t)))
    IN <<x, y>>

\* k * pt in the reference arithmetic, by doubling and adding.
RECURSIVE RefMul(_, _)
RefMul(k, pt) ==
    IF k = 0 THEN Identity
    ELSE IF k % 2 = 0 THEN RefMul(k \div 2, RefAdd(pt, pt))
    ELSE RefAdd(pt, RefMul(k - 1, pt))

\* The curve's cofactor; the prime-order subgroup is the image of the
\* multiplication by it.
Cofactor == 8

PrimeOrderSubgroup == {RefMul(Cofactor, pt) : pt \in CurvePoints}

\* The point of order two, (0, -1).
Order2Point == <<0, FieldP - 1>>

RefNeg(pt) == <<FNeg(pt[1]), pt[2]>>

\* A generator of the whole curve group.
FullOrderPoint ==
    CHOOSE pt \in CurvePoints :
        \A k \in 1 .. (Cardinality(CurvePoints) - 1) : RefMul(k, pt) # Identity

\* An extended-coordinate representative (X, Y, Z, T) of an affine point.
Ext(pt, z) ==
    [X |-> FMul(pt[1], z), Y |-> FMul(pt[2], z), Z |-> z,
     T |-> FMul(FMul(pt[1], pt[2]), z)]

\* The affine point an extended representative with Z # 0 stands for.
Affine(e) == <<FMul(e.X, FInv(e.Z)), FMul(e.Y, FInv(e.Z))>>

-----------------------------------------------------------------------------
(* Linear combinations and the constraint system (bulletproofs::r1cs).     *)

VOne == 0
Committed(j) == 0 - j
MultiplierLeft(i) == 3 * i - 2
MultiplierRight(i) == 3 * i - 1
MultiplierOutput(i) == 3 * i

LCConst(c) == << <<VOne, c>> >>
LCVar(v) == << <<v, 1>> >>
LCAdd(l, r) == l \o r
LCNeg(l) == [i \in DOMAIN l |-> <<l[i][1], FNeg(l[i][2])>>]
LCSub(l, r) == l \o LCNeg(r)

\* A constraint system under construction.  kind: who builds it; v: the
\* committed variables (their values for the prover, the commitments for the
\* verifier); a: the prover's gate assignments <<left, right, output>>;
\* n: the number of gates; gates: each gate's input combinations, or free
\* for an allocated multiplier; cons: the linear constraints, each equated
\* to zero; at: the number of gates when each constraint was added; panic:
\* the builder panicked.
NewCS(kind) ==
    [kind |-> kind, v |-> <<>>, a |-> <<>>, n |-> 0, gates |-> <<>>,
     cons |-> <<>>, at |-> <<>>, panic |-> FALSE]

\* The value the prover has assigned to a variable.
ValOf(c, v) ==
    IF v = 0 THEN 1
    ELSE IF v < 0 THEN c.v[0 - v]
    ELSE c.a[(v + 2) \div 3][((v + 2) % 3) + 1]

RECURSIVE EvalFrom(_, _, _)
EvalFrom(c, l, i) ==
    IF i > Len(l) THEN 0
    ELSE FAdd(FMul(l[i][2], ValOf(c, l[i][1])), EvalFrom(c, l, i + 1))

\* Prover::eval
Eval(c, l) == EvalFrom(c, l, 1)

\* ConstraintSystem::constrain
Constrain(c, l) == [c EXCEPT !.cons = Append(@, l), !.at = Append(@, c.n)]

\* A new gate n over the inputs l and r, which the prover assigns lv and rv.
Gate(c, n, l, r, lv, rv) ==
    [c EXCEPT !.a = IF c.kind = "prover"
                    THEN Append(@, <<lv, rv, FMul(lv, rv)>>) ELSE @,
              !.n = n,
              !.gates = Append(@, [free |-> FALSE, l |-> l, r |-> r]),
              !.cons = @ \o <<LCSub(l, LCVar(MultiplierLeft(n))),
                              LCSub(r, LCVar(MultiplierRight(n)))>>,
              !.at = @ \o <<n, n>>]

GateWires(c, n) ==
    [cs |-> c, l |-> MultiplierLeft(n), r |-> MultiplierRight(n),
     o |-> MultiplierOutput(n)]

\* ConstraintSystem::multiply: one gate; the prover evaluates both inputs
\* and assigns the product, both sides tie the inputs to the gate's wires.
Multiply(c, l, r) ==
    GateWires(Gate(c, c.n + 1, l, r, Eval(c, l), Eval(c, r)), c.n + 1)

\* Option<..>: an assignment that is present or absent.
Some(x) == [some |-> TRUE, val |-> x]
None == [some |-> FALSE, val |-> 0]

\* ConstraintSystem::allocate_multiplier(..).unwrap(): one gate over fresh
\* wires.  The prover needs the assignment (MissingAssignment otherwise, and
\* unwrap panics); the verifier ignores it.
FreeGate(c, n, assignment) ==
    [c EXCEPT !.a = IF c.kind = "prover"
                    THEN Append(@, IF assignment.some
                                   THEN <<assignment.val[1], assignment.val[2],
                                          FMul(assignment.val[1], assignment.val[2])>>
                                   ELSE <<0, 0, 0>>)
                    ELSE @,
              !.n = n,
              !.gates = Append(@, [free |-> TRUE, l |-> <<>>, r |-> <<>>]),
              !.panic = @ \/ (c.kind = "prover" /\ ~assignment.some)]

allocate_multiplier(c, assignment) ==
    GateWires(FreeGate(c, c.n + 1, assignment), c.n + 1)

\* A Pedersen commitment to x.
Commitment(x) == [opens |-> x]

\* Prover::commit(v, v_blinding)
ProverCommit(c, x) ==
    [cs |-> [c EXCEPT !.v = Append(@, x)], var |-> Committed(Len(c.v) + 1),
     com |-> Commitment(x)]

\* Verifier::commit(commitment)
VerifierCommit(c, V) ==
    [cs |-> [c EXCEPT !.v = Append(@, V)], var |-> Committed(Len(c.v) + 1)]

\* Verifier::multiply allocates the same gate without values; both sides
\* number the gates in allocation order.
GateCount(c) == c.n

-----------------------------------------------------------------------------
(* The proof engine (bulletproofs Prover::prove / Verifier::verify).       *)

RECURSIVE Pow2AtLeast(_, _)
Pow2AtLeast(n, k) == IF k >= n THEN k ELSE Pow2AtLeast(n, 2 * k)

\* usize::next_power_of_two
next_power_of_two(n) == Pow2AtLeast(n, 1)

RECURSIVE CoeffFrom(_, _, _)
CoeffFrom(l, v, i) ==
    IF i > Len(l) THEN 0
    ELSE FAdd(IF l[i][1] = v THEN l[i][2] ELSE 0, CoeffFrom(l, v, i + 1))

\* Two constraints contribute the same weight row: every variable has the
\* same total coefficient in both.
SameWeights(l1, l2) ==
    \/ l1 = l2
    \/ \A v \in {l1[i][1] : i \in DOMAIN l1} \cup {l2[i][1] : i \in DOMAIN l2} :
           CoeffFrom(l1, v, 1) = CoeffFrom(l2, v, 1)

\* The prover's assignment satisfies every gate and every linear constraint
\* of the system c.
Satisfied(c) ==
    /\ \A i \in DOMAIN c.a : FMul(c.a[i][1], c.a[i][2]) = c.a[i][3]
    /\ \A i \in DOMAIN c.cons : Eval(c, c.cons[i]) = 0

\* Both sides built the same circuit: same commitments, gates and weights.
SameCircuit(p, v) ==
    /\ Len(p.v) = Len(v.v)
    /\ \A j \in DOMAIN p.v : v.v[j] = Commitment(p.v[j])
    /\ p.n = v.n
    /\ Len(p.cons) = Len(v.cons)
    /\ \A i \in DOMAIN p.cons : SameWeights(p.cons[i], v.cons[i])

\* The system with one more gate assigned.
Assign(c, l, r) == [c EXCEPT !.a = Append(@, <<l, r, FMul(l, r)>>)]

\* The system with the multiplication gates up to the hi-th assigned, each
\* the values of its inputs.
RECURSIVE AssignGates(_, _)
AssignGates(c, hi) ==
    IF Len(c.a) >= hi THEN c
    ELSE AssignGates(Assign(c, Eval(c, c.gates[Len(c.a) + 1].l),
                            Eval(c, c.gates[Len(c.a) + 1].r)), hi)

\* The first allocated multiplier after the gates assigned so far, or n + 1.
NextFree(c) ==
    IF \E j \in (Len(c.a) + 1) .. c.n : c.gates[j].free
    THEN CHOOSE j \in (Len(c.a) + 1) .. c.n :
             /\ c.gates[j].free
             /\ \A i \in (Len(c.a) + 1) .. (j - 1) : ~c.gates[i].free
    ELSE c.n + 1

\* The constraints added while the system had at most the gates that are
\* assigned in c: the first so many, for constraints are kept in order.
Checkable(c) == Cardinality({i \in DOMAIN c.at : c.at[i] <= Len(c.a)})

\* Some assignment extends c.a to all gates and satisfies the constraints
\* from the k-th on: multiplication gates take the values of their inputs,
\* allocated multipliers any values.  The constraints are checked as soon as
\* the gates they were added after are assigned.
RECURSIVE SatFrom(_, _)
SatFrom(c, k) ==
    /\ \A i \in k .. Checkable(c) : Eval(c, c.cons[i]) = 0
    /\ \/ Len(c.a) = c.n
       \/ /\ Len(c.a) < c.n
          /\ IF c.gates[Len(c.a) + 1].free
             THEN \E l \in Fq : \E r \in Fq :
                      SatFrom(Assign(c, l, r), Checkable(c) + 1)
             ELSE SatFrom(AssignGates(c, NextFree(c) - 1),
                          Checkable(c) + 1)

\* The circuit c has a satisfying assignment when its committed variables
\* open to the values v.
Satisfiable(c, v) == SatFrom([c EXCEPT !.a = <<>>, !.v = v], 1)

\* Prover::prove(bp_gens): fails when the generators are too few.
Prove(c, capacity) == [ok |-> capacity >= next_power_of_two(c.n), cs |-> c]

\* A faulty verify, which does not tie the proof to the verifier's circuit.
Verify_ForeignCircuit(pf, v, capacity) ==
    /\ pf.ok
    /\ capacity >= next_power_of_two(v.n)
    /\ Satisfied(pf.cs)

\* Verifier::verify(proof, ..): accepts exactly the proofs of a satisfying
\* assignment of the verifier's own circuit.
Verify(pf, v, capacity) ==
    /\ pf.ok
    /\ capacity >= next_power_of_two(v.n)
    /\ SameCircuit(pf.cs, v)
    /\ Satisfied(pf.cs)

Outcome(b) == IF b THEN "ok" ELSE "err"

\* The values the prover assigned to a gadget point's four wires.
PointValue(c, g) ==
    [X |-> ValOf(c, g.X), Y |-> ValOf(c, g.Y), Z |-> ValOf(c, g.Z),
     T |-> ValOf(c, g.T)]

\* The values the prover's assignment gives a gadget point's combinations.
PointEval(c, g) ==
    [X |-> Eval(c, g.X), Y |-> Eval(c, g.Y), Z |-> Eval(c, g.Z),
     T |-> Eval(c, g.T)]

\* An extended representative e stands for the affine point pt.
Represents(e, pt) == e.Z # 0 /\ Affine(e) = pt

-----------------------------------------------------------------------------
(* helpers/mod.rs                                                          *)

\* n_point_coords_to_LC, for one point: its coordinates as constant LCs.
point_coords_to_LC(e) ==
    [X |-> LCConst(fq_as_scalar(e.X)), Y |-> LCConst(fq_as_scalar(e.Y)),
     Z |-> LCConst(fq_as_scalar(e.Z)), T |-> LCConst(fq_as_scalar(e.T))]

-----------------------------------------------------------------------------
(* gadgets/point_addition/add.rs                                           *)

\* A gadget's local bindings: the constraint system it threads through its
\* calls, and the values of its `let`s by name.
Put(m, name, val) == (name :> val) @@ m

PutGate(m, name, g) ==
    ("cs" :> g.cs) @@ (name :> [l |-> g.l, r |-> g.r, o |-> g.o]) @@ m

\* let (l, r, o) = cs.multiply(left, right), bound to `name`.
Mul(m, name, left, right) == PutGate(m, name, Multiply(m.cs, left, right))

\* cs.constrain(lc)
Con(m, lc) == ("cs" :> Constrain(m.cs, lc)) @@ m

\* What a function returns from the frame m; after a panic there is no
\* result, only the constraint system it was building.
Returns(m, result) == IF m.cs.panic THEN [cs |-> m.cs] ELSE result

\* A faulty H, B - A in place of B + A, which addition must be told from.
point_addition_H_Minus(m) == LCSub(LCVar(m.B.o), LCVar(m.A.o))

point_addition_H(m) == LCAdd(LCVar(m.B.o), LCVar(m.A.o))

\* A faulty E, with a*A and a*B taken away from E12.
point_addition_E_Minus(m) ==
    LCSub(LCSub(LCVar(m.E12.o), LCVar(m.minus_a.o)), LCVar(m.minus_b.o))

\* minus_a + minus_b + E12
point_addition_E(m) ==
    LCAdd(LCAdd(LCVar(m.minus_a.o), LCVar(m.minus_b.o)), LCVar(m.E12.o))

\* The statements of point_addition_gadget, in order.
RECURSIVE point_addition_run(_, _, _)
point_addition_run(m, k, n) ==
    IF k > n \/ m.cs.panic THEN m
    ELSE point_addition_run(
       (CASE k = 1 -> Mul(m, "A", m.p1.X, m.p2.X)
          [] k = 2 -> Mul(m, "B", m.p1.Y, m.p2.Y)
          [] k = 3 -> Mul(m, "pt", m.p1.T, m.p2.T)
          [] k = 4 -> Mul(m, "C", LCVar(m.pt.o), m.d)
          [] k = 5 -> Mul(m, "D", m.p1.Z, m.p2.Z)
          [] k = 6 -> Mul(m, "E12", LCAdd(m.p1.X, m.p1.Y), LCAdd(m.p2.X, m.p2.Y))
          [] k = 7 -> Mul(m, "minus_a", m.a, LCVar(m.A.o))
          [] k = 8 -> Mul(m, "minus_b", m.a, LCVar(m.B.o))
          [] k = 9 -> Put(m, "E", point_addition_E(m))
          [] k = 10 -> Put(m, "F", LCSub(LCVar(m.D.o), LCVar(m.C.o)))
          [] k = 11 -> Put(m, "G", LCAdd(LCVar(m.D.o), LCVar(m.C.o)))
          [] k = 12 -> Put(m, "H", point_addition_H(m))
          [] k = 13 -> Mul(m, "X", m.E, m.F)
          [] k = 14 -> Mul(m, "Y", m.G, m.H)
          [] k = 15 -> Mul(m, "Z", m.F, m.G)
          [] k = 16 -> Mul(m, "T", m.E, m.H)),
        k + 1, n)

\* The gadget's result: the constraint system and the four output wires.
GadgetPoint(m) ==
    Returns(m, [cs |-> m.cs, X |-> m.X.o, Y |-> m.Y.o, Z |-> m.Z.o, T |-> m.T.o])

point_addition_gadget(c, p1, p2, d, a) ==
    GadgetPoint(point_addition_run(
        [cs |-> c, p1 |-> p1, p2 |-> p2, d |-> d, a |-> a], 1, 16))

\* A faulty constraint, on the sum of the two products.
cross_constrain_Sum(m) == Con(m, LCAdd(LCVar(m.x1y2.o), LCVar(m.y1x2.o)))

\* let x1y2 = cs.multiply(..).2; let y1x2 = cs.multiply(..).2;
\* cs.constrain(x1y2 - y1x2), shared by both constrain gadgets.
cross_constrain(m) == Con(m, LCSub(LCVar(m.x1y2.o), LCVar(m.y1x2.o)))

point_addition_constrain_gadget(c, p_add, res_point) ==
    cross_constrain(
        Mul(Mul([cs |-> c, res_p_coords |-> point_coords_to_LC(p_add),
                 res_point |-> res_point],
                "x1y2", res_point.X, point_coords_to_LC(p_add).Y),
            "y1x2", res_point.Y, point_coords_to_LC(p_add).X)).cs

\* The circuit point_addition_proof and point_addition_verify both build.
\* `g` is the point the gadget returned; the result keeps its wires.
WithConstraint(g, c) == [g EXCEPT !.cs = c]

point_addition_constrained(g, p3) ==
    WithConstraint(g, point_addition_constrain_gadget(g.cs, p3,
                          [X |-> LCVar(g.X), Y |-> LCVar(g.Y)]))

point_addition_circuit(c, p1, p2, p3, a, d) ==
    point_addition_constrained(
        point_addition_gadget(c, point_coords_to_LC(p1), point_coords_to_LC(p2),
                              LCConst(fq_as_scalar(d)), LCConst(fq_as_scalar(a))),
        p3)

\* BulletproofGens::new(32, 1) in point_addition_roundtrip_helper.
AddGensCapacity == 32

-----------------------------------------------------------------------------
(* Inputs.                                                                 *)

\* Projective scalings of the representatives handed to the drivers.
ZScales == {1, 2}

ExtPoints == {Ext(pt, z) : pt \in CurvePoints, z \in ZScales}

NoProof == [ok |-> FALSE, cs |-> NewCS("prover")]

\* let proof = prover.prove(bp_gens)?; the driver keeps the wires of the
\* point its gadget returned.
Proved(g, capacity) ==
    /\ proof' = Prove(g.cs, capacity)
    /\ loc' = [X |-> g.X, Y |-> g.Y, Z |-> g.Z, T |-> g.T]

\* verifier.verify(&proof, ..) on the circuit the verifier built.
Verified(g, capacity) ==
    /\ cs' = g.cs
    /\ res' = Outcome(Verify(proof, g.cs, capacity))

-----------------------------------------------------------------------------
(* Roundtrip of the public-point addition gadget                           *)
(* (point_addition_roundtrip_helper).                                      *)

\* The points tried as the result of an addition: the sum, the sum moved by
\* a point of order two or four, and the sum's negative.
NearSum(sum) ==
    {RefAdd(sum, t) : t \in {pt \in CurvePoints : RefMul(4, pt) = Identity}}
        \cup {RefNeg(sum)}

InitAdd ==
    /\ \/ /\ op = "point_addition"
          /\ \E p1 \in ExtPoints, p2 \in CurvePoints :
                 \E p3 \in NearSum(RefAdd(Affine(p1), p2)) :
                     inp = [p1 |-> p1, p2 |-> Ext(p2, 1), p3 |-> Ext(p3, 1),
                            a |-> EDWARDS_A, d |-> EDWARDS_D]
       \/ /\ op = "ristretto_add"
          /\ inp \in [p1 : ExtPoints, p2 : ExtPoints]
    /\ pc = "start"
    /\ cs = NewCS("verifier")
    /\ loc = <<>>
    /\ proof = NoProof
    /\ res = "none"

\* point_addition_proof
PointAdditionProof ==
    /\ op = "point_addition" /\ pc = "start"
    /\ Proved(point_addition_circuit(NewCS("prover"), inp.p1, inp.p2, inp.p3,
                                     inp.a, inp.d), AddGensCapacity)
    /\ pc' = IF proof'.ok THEN "proved" ELSE "done"
    /\ res' = IF proof'.ok THEN "none" ELSE "err"
    /\ UNCHANGED <<op, inp, cs>>

\* point_addition_verify
PointAdditionVerify ==
    /\ op = "point_addition" /\ pc = "proved"
    /\ Verified(point_addition_circuit(NewCS("verifier"), inp.p1, inp.p2, inp.p3,
                                       inp.a, inp.d), AddGensCapacity)
    /\ pc' = "done"
    /\ UNCHANGED <<op, inp, loc, proof>>

-----------------------------------------------------------------------------
(* gadgets/point_doubling/double.rs                                        *)

\* The statements of point_doubling_gadget, in order.
RECURSIVE point_doubling_run(_, _, _)
point_doubling_run(m, k, n) ==
    IF k > n \/ m.cs.panic THEN m
    ELSE point_doubling_run(
       (CASE k = 1 -> Mul(m, "A", m.p1.X, m.p1.X)
          [] k = 2 -> Mul(m, "B", m.p1.Y, m.p1.Y)
          [] k = 3 -> Mul(m, "p1_z_sq", m.p1.Z, m.p1.Z)
          [] k = 4 -> Mul(m, "C", LCConst(2), LCVar(m.p1_z_sq.o))
          [] k = 5 -> Mul(m, "D", m.a, LCVar(m.A.o))
          [] k = 6 -> Mul(m, "p1xy_sq", LCAdd(m.p1.X, m.p1.Y), LCAdd(m.p1.X, m.p1.Y))
          [] k = 7 -> Put(m, "E", LCSub(LCSub(LCVar(m.p1xy_sq.o), LCVar(m.A.o)),
                                        LCVar(m.B.o)))
          [] k = 8 -> Put(m, "G", LCAdd(LCVar(m.D.o), LCVar(m.B.o)))
          [] k = 9 -> Put(m, "F", LCSub(m.G, LCVar(m.C.o)))
          [] k = 10 -> Put(m, "H", LCSub(LCVar(m.D.o), LCVar(m.B.o)))
          [] k = 11 -> Mul(m, "X", m.E, m.F)
          [] k = 12 -> Mul(m, "Y", m.G, m.H)
          [] k = 13 -> Mul(m, "Z", m.F, m.G)
          [] k = 14 -> Mul(m, "T", m.E, m.H)),
        k + 1, n)

\* A faulty call, with the parameters a and d in each other's place.
point_doubling_gadget_Swapped(c, p1, d, a) ==
    GadgetPoint(point_doubling_run([cs |-> c, p1 |-> p1, d |-> a, a |-> d], 1, 14))

point_doubling_gadget(c, p1, d, a) ==
    GadgetPoint(point_doubling_run([cs |-> c, p1 |-> p1, d |-> d, a |-> a], 1, 14))

point_doubling_constrain_gadget(c, res_p_coords, res_point) ==
    cross_constrain(
        Mul(Mul([cs |-> c, res_p_coords |-> res_p_coords, res_point |-> res_point],
                "x1y2", res_point.X, res_p_coords.Y),
            "y1x2", res_point.Y, res_p_coords.X)).cs

point_doubling_constrained(g, p2) ==
    WithConstraint(g, point_doubling_constrain_gadget(g.cs, point_coords_to_LC(p2),
                          [X |-> LCVar(g.X), Y |-> LCVar(g.Y)]))

\* The circuit point_doubling_proof and point_doubling_verify both build.
point_doubling_circuit(c, p1, p2, a, d) ==
    point_doubling_constrained(
        point_doubling_gadget(c, point_coords_to_LC(p1), LCConst(fq_as_scalar(d)),
                              LCConst(fq_as_scalar(a))),
        p2)

\* BulletproofGens::new(32, 1) in point_doubling_roundtrip_helper.
DoubleGensCapacity == 32

-----------------------------------------------------------------------------
(* Roundtrip of the public-point doubling gadget                           *)
(* (point_doubling_roundtrip_helper).                                      *)

InitDouble ==
    /\ op = "point_doubling"
    /\ inp \in [p1 : ExtPoints, p2 : ExtPoints, a : {EDWARDS_A}, d : {EDWARDS_D}]
    /\ pc = "start"
    /\ cs = NewCS("verifier")
    /\ loc = <<>>
    /\ proof = NoProof
    /\ res = "none"

\* point_doubling_proof
PointDoublingProof ==
    /\ op = "point_doubling" /\ pc = "start"
    /\ Proved(point_doubling_circuit(NewCS("prover"), inp.p1, inp.p2, inp.a,
                                     inp.d), DoubleGensCapacity)
    /\ pc' = IF proof'.ok THEN "proved" ELSE "done"
    /\ res' = IF proof'.ok THEN "none" ELSE "err"
    /\ UNCHANGED <<op, inp, cs>>

\* point_doubling_verify
PointDoublingVerify ==
    /\ op = "point_doubling" /\ pc = "proved"
    /\ Verified(point_doubling_circuit(NewCS("verifier"), inp.p1, inp.p2, inp.a,
                                       inp.d), DoubleGensCapacity)
    /\ pc' = "done"
    /\ UNCHANGED <<op, inp, loc, proof>>

NextDouble == PointDoublingProof \/ PointDoublingVerify

SpecDouble == InitDouble /\ [][NextDouble]_vars

DoubleOfInput == RefAdd(Affine(inp.p1), Affine(inp.p1))

\* C6 as stated: the doubling roundtrip succeeds for (P, 2P) and fails for
\* (P, Q) for every curve point Q that is not 2P.
C6_DoublingAcceptsExactlyTheDouble ==
    (op = "point_doubling" /\ pc = "done")
        => (res = "ok" <=> Affine(inp.p2) = DoubleOfInput)

\* The half of C6 that holds: (P, 2P) is accepted, and the gadget's point
\* represents 2P.
DoublingAcceptsTheDouble ==
    (op = "point_doubling" /\ pc # "start") =>
        /\ Represents(PointValue(proof.cs, loc), DoubleOfInput)
        /\ (pc = "done" /\ Affine(inp.p2) = DoubleOfInput) => res = "ok"

-----------------------------------------------------------------------------
(* The curve library's arithmetic on extended coordinates (zerocaf).  The  *)
(* gadgets take their witnesses from it.                                   *)

ExtPointEFGH(E, F, G, H) ==
    [X |-> FMul(E, F), Y |-> FMul(G, H), Z |-> FMul(F, G), T |-> FMul(E, H)]

\* The unified addition formulas, the ones the add gadgets constrain.
UnifiedAdd(e1, e2) ==
    ExtPointEFGH(
        FAdd(FAdd(FMul(FAdd(e1.X, e1.Y), FAdd(e2.X, e2.Y)),
                  FMul(EDWARDS_A, FMul(e1.X, e2.X))),
             FMul(EDWARDS_A, FMul(e1.Y, e2.Y))),
        FSub(FMul(e1.Z, e2.Z), FMul(EDWARDS_D, FMul(e1.T, e2.T))),
        FAdd(FMul(e1.Z, e2.Z), FMul(EDWARDS_D, FMul(e1.T, e2.T))),
        FAdd(FMul(e1.Y, e2.Y), FMul(e1.X, e2.X)))

\* The dedicated doubling formulas, the ones the doubling gadgets constrain.
DedicatedDouble(e) ==
    ExtPointEFGH(
        FSub(FSub(FMul(FAdd(e.X, e.Y), FAdd(e.X, e.Y)), FMul(e.X, e.X)),
             FMul(e.Y, e.Y)),
        FSub(FAdd(FMul(EDWARDS_A, FMul(e.X, e.X)), FMul(e.Y, e.Y)),
             FMul(2, FMul(e.Z, e.Z))),
        FAdd(FMul(EDWARDS_A, FMul(e.X, e.X)), FMul(e.Y, e.Y)),
        FSub(FMul(EDWARDS_A, FMul(e.X, e.X)), FMul(e.Y, e.Y)))

\* Double::double of the library returns a representative of 2P; which one
\* is the library's choice: that of P + P or that of the doubling formulas.
DoubleReps == {"unified", "dedicated"}

LibraryDouble(e, rep) ==
    IF rep = "unified" THEN UnifiedAdd(e, e) ELSE DedicatedDouble(e)

-----------------------------------------------------------------------------
(* util.rs: nonzero_gadget                                                 *)

\* The builder of a frame panics when b holds.
Panic(m, b) == ("cs" :> [m.cs EXCEPT !.panic = @ \/ b]) @@ m

\* A gadget without a result was applied to the frame's constraint system.
SetCS(m, c) == ("cs" :> c) @@ m

\* A function returning g was applied: its result is bound to `name`.
Call(m, name, g) ==
    IF g.cs.panic THEN SetCS(m, g.cs) ELSE ("cs" :> g.cs) @@ (name :> g) @@ m

\* A faulty witness: the value itself, not its inverse.
nonzero_inverse_NotInverted(var_assigment) ==
    IF var_assigment.some /\ var_assigment.val # 0
    THEN Some(<<var_assigment.val, 1>>)
    ELSE None

\* var_assigment.and_then(|q| Some((q.inverse(), Scalar::one())));
\* FieldElement::inverse panics on zero.
nonzero_inverse(var_assigment) ==
    IF var_assigment.some /\ var_assigment.val # 0
    THEN Some(<<FInv(var_assigment.val), 1>>)
    ELSE None

RECURSIVE nonzero_gadget_run(_, _, _)
nonzero_gadget_run(m, k, n) ==
    IF k > n \/ m.cs.panic THEN m
    ELSE nonzero_gadget_run(
       (CASE k = 1 -> Panic(m, m.var_assigment.some /\ m.var_assigment.val = 0)
          [] k = 2 -> PutGate(m, "inv_var",
                              allocate_multiplier(m.cs, nonzero_inverse(m.var_assigment)))
          [] k = 3 -> Mul(m, "should_be_one", LCVar(m.inv_var.l), m.var)
          [] k = 4 -> Con(m, LCSub(LCVar(m.should_be_one.o), LCConst(1)))),
        k + 1, n)

nonzero_gadget(c, var, var_assigment) ==
    nonzero_gadget_run([cs |-> c, var |-> var, var_assigment |-> var_assigment], 1,
                       4).cs

-----------------------------------------------------------------------------
(* ristretto_point.rs: SonnyRistrettoPointGadget                           *)

\* A faulty re-tie of F, with C taken away where the source adds it.
Ristretto_retie_F_Minus(m) == LCSub(LCSub(m.F, LCVar(m.D.o)), LCVar(m.C.o))

\* F.clone() - D + C
Ristretto_retie_F(m) == LCAdd(LCSub(m.F, LCVar(m.D.o)), LCVar(m.C.o))

\* The statements of SonnyRistrettoPointGadget::add, in order.
RECURSIVE Ristretto_add_run(_, _, _)
Ristretto_add_run(m, k, n) ==
    IF k > n \/ m.cs.panic THEN m
    ELSE Ristretto_add_run(
       (CASE k = 1 -> Mul(m, "A", m.self.X, m.other.X)
          [] k = 2 -> Mul(m, "B", m.self.Y, m.other.Y)
          [] k = 3 -> Mul(m, "pt", m.self.T, m.other.T)
          [] k = 4 -> Mul(m, "C", LCVar(m.pt.o), LCConst(fq_as_scalar(EDWARDS_D)))
          [] k = 5 -> Mul(m, "D", m.self.Z, m.other.Z)
          [] k = 6 -> Put(m, "E1", LCAdd(m.self.X, m.self.Y))
          [] k = 7 -> Con(m, LCSub(LCSub(m.E1, m.self.X), m.self.Y))
          [] k = 8 -> Put(m, "E2", LCAdd(m.other.X, m.other.Y))
          [] k = 9 -> Con(m, LCSub(LCSub(m.E2, m.other.X), m.other.Y))
          [] k = 10 -> Mul(m, "E12", m.E1, m.E2)
          [] k = 11 -> Mul(m, "aA", LCConst(fq_as_scalar(EDWARDS_A)), LCVar(m.A.o))
          [] k = 12 -> Mul(m, "bB", LCConst(fq_as_scalar(EDWARDS_A)), LCVar(m.B.o))
          [] k = 13 -> Put(m, "E", LCAdd(LCAdd(LCVar(m.aA.o), LCVar(m.bB.o)),
                                         LCVar(m.E12.o)))
          [] k = 14 -> Con(m, LCSub(LCSub(LCSub(m.E, LCVar(m.aA.o)), LCVar(m.bB.o)),
                                    LCVar(m.E12.o)))
          [] k = 15 -> Put(m, "F", LCSub(LCVar(m.D.o), LCVar(m.C.o)))
          [] k = 16 -> Con(m, Ristretto_retie_F(m))
          [] k = 17 -> Put(m, "G", LCAdd(LCVar(m.D.o), LCVar(m.C.o)))
          [] k = 18 -> Con(m, LCSub(LCSub(m.G, LCVar(m.D.o)), LCVar(m.C.o)))
          [] k = 19 -> Put(m, "H", LCAdd(LCVar(m.B.o), LCVar(m.A.o)))
          [] k = 20 -> Con(m, LCSub(LCSub(m.H, LCVar(m.B.o)), LCVar(m.A.o)))
          [] k = 21 -> Mul(m, "X", m.E, m.F)
          [] k = 22 -> Mul(m, "Y", m.G, m.H)
          [] k = 23 -> Mul(m, "Z", LCVar(m.X.r), LCVar(m.Y.l))
          [] k = 24 -> Mul(m, "T", LCVar(m.X.l), LCVar(m.Y.r))),
        k + 1, n)

\* A faulty result, whose T is the wire of Z.
WirePoint_TFromZ(m) ==
    Returns(m, [cs |-> m.cs, X |-> LCVar(m.X.o), Y |-> LCVar(m.Y.o),
                Z |-> LCVar(m.Z.o), T |-> LCVar(m.Z.o)])

\* SonnyRistrettoPointGadget { X: X.into(), Y: Y.into(), Z: Z.into(), T: T.into() }
WirePoint(m) ==
    Returns(m, [cs |-> m.cs, X |-> LCVar(m.X.o), Y |-> LCVar(m.Y.o),
                Z |-> LCVar(m.Z.o), T |-> LCVar(m.T.o)])

\* A faulty add, which adds the point to itself.
Ristretto_add_SelfOnly(c, self, other) ==
    WirePoint(Ristretto_add_run([cs |-> c, self |-> self, other |-> self], 1, 24))

Ristretto_add(c, self, other) ==
    WirePoint(Ristretto_add_run([cs |-> c, self |-> self, other |-> other], 1, 24))

\* SonnyRistrettoPointGadget::double
Ristretto_double(c, self) == Ristretto_add(c, self, self)

\* The statements of SonnyRistrettoPointGadget::equals, in order.
RECURSIVE Ristretto_equals_run(_, _, _)
Ristretto_equals_run(m, k, n) ==
    IF k > n \/ m.cs.panic THEN m
    ELSE Ristretto_equals_run(
       (CASE k = 1 -> Mul(m, "x1y2", m.self.X, m.other.Y)
          [] k = 2 -> Mul(m, "y1x2", m.self.Y, m.other.X)
          [] k = 3 -> Con(m, LCSub(LCVar(m.x1y2.o), LCVar(m.y1x2.o)))),
        k + 1, n)

Ristretto_equals(c, self, other) ==
    Ristretto_equals_run([cs |-> c, self |-> self, other |-> other], 1, 3).cs

\* The statements of SonnyRistrettoPointGadget::conditionally_select, in
\* order.  The first multiplication rebinds `bit` to its right wire; inside
\* the blocks of y_prime and z_prime `bit` is the block's own left wire.
RECURSIVE Ristretto_conditionally_select_run(_, _, _)
Ristretto_conditionally_select_run(m, k, n) ==
    IF k > n \/ m.cs.panic THEN m
    ELSE Ristretto_conditionally_select_run(
       (CASE k = 1 -> Mul(m, "x_prime", m.self.X, m.bit)
          [] k = 2 -> Mul(m, "bit_t_y", LCVar(m.x_prime.r), m.self.Y)
          [] k = 3 -> Put(m, "y_prime", LCSub(LCAdd(LCVar(m.bit_t_y.o), LCConst(1)),
                                              LCVar(m.bit_t_y.l)))
          [] k = 4 -> Con(m, LCAdd(LCSub(LCSub(m.y_prime, LCVar(m.bit_t_y.o)),
                                         LCConst(1)),
                                   LCVar(m.bit_t_y.l)))
          [] k = 5 -> Mul(m, "bit_t_z", LCVar(m.x_prime.r), m.self.Z)
          [] k = 6 -> Put(m, "z_prime", LCSub(LCAdd(LCVar(m.bit_t_z.o), LCConst(1)),
                                              LCVar(m.bit_t_z.l)))
          [] k = 7 -> Con(m, LCAdd(LCSub(LCSub(m.z_prime, LCVar(m.bit_t_z.o)),
                                         LCConst(1)),
                                   LCVar(m.bit_t_z.l)))
          [] k = 8 -> Mul(m, "t_prime", m.self.T, LCVar(m.x_prime.r))),
        k + 1, n)

\* A faulty result, which hands back the y coordinate it was given.
SelectedPoint_Unselected(m) ==
    Returns(m, [cs |-> m.cs, X |-> LCVar(m.x_prime.o), Y |-> m.self.Y,
                Z |-> m.z_prime, T |-> LCVar(m.t_prime.o)])

SelectedPoint(m) ==
    Returns(m, [cs |-> m.cs, X |-> LCVar(m.x_prime.o), Y |-> m.y_prime,
                Z |-> m.z_prime, T |-> LCVar(m.t_prime.o)])

Ristretto_conditionally_select(c, self, bit) ==
    SelectedPoint(Ristretto_conditionally_select_run(
                      [cs |-> c, self |-> self, bit |-> bit], 1, 8))

\* let point_8 = point.double().double().double();
point_8(point, rep) ==
    LibraryDouble(LibraryDouble(LibraryDouble(point, rep), rep), rep)

\* The statements of ristretto_gadget, in order; point_assign is Some(point)
\* or None and selects the arm of the match.
RECURSIVE ristretto_gadget_run(_, _, _)
ristretto_gadget_run(m, k, n) ==
    IF k > n \/ m.cs.panic THEN m
    ELSE ristretto_gadget_run(
       (CASE k = 1 -> Call(m, "two_p", Ristretto_double(m.cs, m.self))
          [] k = 2 -> Call(m, "four_p", Ristretto_double(m.cs, m.two_p))
          [] k = 3 -> Call(m, "eight_p", Ristretto_double(m.cs, m.four_p))
          [] k = 4 -> Put(m, "point_8", IF m.point_assign.some
                                        THEN point_8(m.point_assign.val, m.rep)
                                        ELSE None)
          [] k = 5 -> SetCS(m, nonzero_gadget(m.cs, m.eight_p.X,
                                              IF m.point_assign.some
                                              THEN Some(m.point_8.X) ELSE None))
          [] k = 6 -> Put(m, "y_m_z", LCSub(m.eight_p.Y, m.eight_p.Z))
          [] k = 7 -> Con(m, IF m.point_assign.some
                             THEN LCSub(LCSub(m.eight_p.Y, m.eight_p.Z), m.y_m_z)
                             ELSE LCAdd(LCSub(m.eight_p.Y, m.eight_p.Z), m.y_m_z))
          [] k = 8 -> SetCS(m, nonzero_gadget(m.cs, m.y_m_z,
                                              IF m.point_assign.some
                                              THEN Some(FSub(m.point_8.Y, m.point_8.Z))
                                              ELSE None))),
        k + 1, n)

ristretto_gadget(c, self, point_assign, rep) ==
    ristretto_gadget_run([cs |-> c, self |-> self, point_assign |-> point_assign,
                          rep |-> rep], 1, 8).cs

\* The gadget_p a constructor returns, with the constraint system after its
\* ristretto_gadget call.
Checked(gadget_p, c) ==
    [cs |-> c, X |-> gadget_p.X, Y |-> gadget_p.Y, Z |-> gadget_p.Z,
     T |-> gadget_p.T]

\* SonnyRistrettoPointGadget::from_point
from_point(c, point, rep) ==
    Checked(point_coords_to_LC(point),
            ristretto_gadget(c, point_coords_to_LC(point), Some(point), rep))

\* SonnyRistrettoPointGadget::from_lcs; the caller passes four combinations.
from_lcs(c, lcs, rep) ==
    Checked([X |-> lcs[1], Y |-> lcs[2], Z |-> lcs[3], T |-> lcs[4]],
            ristretto_gadget(c, [X |-> lcs[1], Y |-> lcs[2], Z |-> lcs[3],
                                 T |-> lcs[4]], None, rep))

-----------------------------------------------------------------------------
(* util.rs: committing to a point                                          *)

\* One (commitment, variable) pair of the unzip: the variable is bound to
\* `name`, the commitment appended to the frame's commitments.
PutCommit(m, name, g) ==
    ("cs" :> g.cs) @@ (name :> g.var)
        @@ ("commitments" :> Append(m.commitments, g.com)) @@ m

PutVar(m, name, g) == ("cs" :> g.cs) @@ (name :> g.var) @@ m

VarPoint(m) ==
    [X |-> LCVar(m.X), Y |-> LCVar(m.Y), Z |-> LCVar(m.Z), T |-> LCVar(m.T)]

RECURSIVE prover_commit_to_sonny_point_run(_, _, _)
prover_commit_to_sonny_point_run(m, k, n) ==
    IF k > n \/ m.cs.panic THEN m
    ELSE prover_commit_to_sonny_point_run(
       (CASE k = 1 -> PutCommit(m, "X", ProverCommit(m.cs, fq_as_scalar(m.p.X)))
          [] k = 2 -> PutCommit(m, "Y", ProverCommit(m.cs, fq_as_scalar(m.p.Y)))
          [] k = 3 -> PutCommit(m, "Z", ProverCommit(m.cs, fq_as_scalar(m.p.Z)))
          [] k = 4 -> PutCommit(m, "T", ProverCommit(m.cs, fq_as_scalar(m.p.T)))
          [] k = 5 -> SetCS(m, ristretto_gadget(m.cs, VarPoint(m), Some(m.p), m.rep))),
        k + 1, n)

\* (gadget_p, commitments)
CommittedPoint(m) ==
    Returns(m, [cs |-> m.cs, X |-> LCVar(m.X), Y |-> LCVar(m.Y), Z |-> LCVar(m.Z),
                T |-> LCVar(m.T), commitments |-> m.commitments])

prover_commit_to_sonny_point(c, p, rep) ==
    CommittedPoint(prover_commit_to_sonny_point_run(
                       [cs |-> c, p |-> p, rep |-> rep, commitments |-> <<>>], 1, 5))

RECURSIVE verifier_commit_to_sonny_point_run(_, _, _)
verifier_commit_to_sonny_point_run(m, k, n) ==
    IF k > n \/ m.cs.panic THEN m
    ELSE verifier_commit_to_sonny_point_run(
       (CASE k = 1 -> Panic(m, Len(m.commitments) # 4)
          [] k = 2 -> PutVar(m, "X", VerifierCommit(m.cs, m.commitments[1]))
          [] k = 3 -> PutVar(m, "Y", VerifierCommit(m.cs, m.commitments[2]))
          [] k = 4 -> PutVar(m, "Z", VerifierCommit(m.cs, m.commitments[3]))
          [] k = 5 -> PutVar(m, "T", VerifierCommit(m.cs, m.commitments[4]))
          [] k = 6 -> SetCS(m, from_lcs(m.cs, <<LCVar(m.X), LCVar(m.Y), LCVar(m.Z),
                                                LCVar(m.T)>>, m.rep).cs)),
        k + 1, n)

verifier_commit_to_sonny_point(c, commitments, rep) ==
    CommittedPoint(verifier_commit_to_sonny_point_run(
                       [cs |-> c, commitments |-> commitments, rep |-> rep], 1, 6))

-----------------------------------------------------------------------------
(* The drivers' common steps.                                              *)

\* The end of a *_proof function whose frame is m: a panic of the builder
\* ends the roundtrip, an error of prove is returned by `?`, and otherwise
\* the helper goes on with the proof and what the function hands on.
Proving(m, capacity, locals) ==
    /\ proof' = IF m.cs.panic THEN NoProof ELSE Prove(m.cs, capacity)
    /\ loc' = IF m.cs.panic THEN <<>> ELSE locals
    /\ pc' = IF ~m.cs.panic /\ proof'.ok THEN "proved" ELSE "done"
    /\ res' = IF m.cs.panic THEN "panic"
              ELSE IF proof'.ok THEN "none" ELSE "err"

\* The end of a *_verify function whose frame is m.
Verifying(m, capacity) ==
    /\ cs' = m.cs
    /\ pc' = "done"
    /\ res' = IF m.cs.panic THEN "panic"
              ELSE Outcome(Verify(proof, m.cs, capacity))

-----------------------------------------------------------------------------
(* tests/edwards_point.rs: is_ristretto_roundtrip_helper                   *)

\* BulletproofGens::new(64, 1)
IsRistrettoGensCapacity == 64

InitRistretto ==
    /\ op = "is_ristretto"
    /\ inp \in [point : ExtPoints, rep : DoubleReps]
    /\ pc = "start"
    /\ cs = NewCS("verifier")
    /\ loc = <<>>
    /\ proof = NoProof
    /\ res = "none"

\* is_ristretto_proof
IsRistrettoProof ==
    /\ op = "is_ristretto" /\ pc = "start"
    /\ Proving(from_point(NewCS("prover"), inp.point, inp.rep),
               IsRistrettoGensCapacity, <<>>)
    /\ UNCHANGED <<op, inp, cs>>

\* is_ristretto_verify
IsRistrettoVerify ==
    /\ op = "is_ristretto" /\ pc = "proved"
    /\ Verifying(from_point(NewCS("verifier"), inp.point, inp.rep),
                 IsRistrettoGensCapacity)
    /\ UNCHANGED <<op, inp, loc, proof>>

NextRistretto == IsRistrettoProof \/ IsRistrettoVerify

SpecRistretto == InitRistretto /\ [][NextRistretto]_vars

-----------------------------------------------------------------------------
(* tests/edwards_point.rs: point_committing_roundtrip_helper               *)

\* BulletproofGens::new(128, 1)
CommittingGensCapacity == 128

InitCommitting ==
    /\ op = "point_committing"
    /\ inp \in {[p1 |-> A, p2 |-> B, rep |-> rep] :
                    <<A, B>> \in {<<A, A>> : A \in ExtPoints}
                                 \cup {<<A, UnifiedAdd(A, A)>> : A \in ExtPoints},
                    rep \in DoubleReps}
    /\ pc = "start"
    /\ cs = NewCS("verifier")
    /\ loc = <<>>
    /\ proof = NoProof
    /\ res = "none"

\* The statements of point_committing_proof before prove, in order.
RECURSIVE point_committing_proof_run(_, _, _)
point_committing_proof_run(m, k, n) ==
    IF k > n \/ m.cs.panic THEN m
    ELSE point_committing_proof_run(
       (CASE k = 1 -> Call(m, "P1", prover_commit_to_sonny_point(m.cs, m.p1, m.rep))
          [] k = 2 -> Call(m, "P2", prover_commit_to_sonny_point(m.cs, m.p2, m.rep))
          [] k = 3 -> Put(m, "commitments", m.P1.commitments \o m.P2.commitments)),
        k + 1, n)

\* The statements of point_committing_verify before verify, in order;
\* points = commitments.chunks(4).
RECURSIVE point_committing_verify_run(_, _, _)
point_committing_verify_run(m, k, n) ==
    IF k > n \/ m.cs.panic THEN m
    ELSE point_committing_verify_run(
       (CASE k = 1 -> Call(m, "P1", verifier_commit_to_sonny_point(
                                        m.cs, SubSeq(m.commitments, 1, 4), m.rep))
          [] k = 2 -> Call(m, "P2", verifier_commit_to_sonny_point(
                                        m.cs, SubSeq(m.commitments, 5, 8), m.rep))),
        k + 1, n)

\* Ok((proof, commitments))
point_committing_proved(m) == Proving(m, CommittingGensCapacity, m.commitments)

\* point_committing_proof
PointCommittingProof ==
    /\ op = "point_committing" /\ pc = "start"
    /\ point_committing_proved(point_committing_proof_run(
           [cs |-> NewCS("prover"), p1 |-> inp.p1, p2 |-> inp.p2,
            rep |-> inp.rep], 1, 3))
    /\ UNCHANGED <<op, inp, cs>>

\* point_committing_verify
PointCommittingVerify ==
    /\ op = "point_committing" /\ pc = "proved"
    /\ Verifying(point_committing_verify_run(
                     [cs |-> NewCS("verifier"), commitments |-> loc,
                      rep |-> inp.rep], 1, 2),
                 CommittingGensCapacity)
    /\ UNCHANGED <<op, inp, loc, proof>>

NextCommitting == PointCommittingProof \/ PointCommittingVerify

SpecCommitting == InitCommitting /\ [][NextCommitting]_vars

-----------------------------------------------------------------------------
(* gadgets/boolean.rs                                                      *)

\* The statements of binary_constrain_gadget, in order.
RECURSIVE binary_constrain_gadget_run(_, _, _)
binary_constrain_gadget_run(m, k, n) ==
    IF k > n \/ m.cs.panic THEN m
    ELSE binary_constrain_gadget_run(
       (CASE k = 1 -> Put(m, "one_min_bit", LCSub(LCConst(1), LCVar(m.bit)))
          [] k = 2 -> Con(m, LCAdd(LCSub(m.one_min_bit, LCConst(1)), LCVar(m.bit)))
          [] k = 3 -> Mul(m, "res", m.one_min_bit, LCVar(m.bit))
          [] k = 4 -> Con(m, LCVar(m.res.o))),
        k + 1, n)

binary_constrain_gadget(c, bit) ==
    binary_constrain_gadget_run([cs |-> c, bit |-> bit], 1, 4).cs

-----------------------------------------------------------------------------
(* gadgets/sk_knowledge/sk_know_gadget.rs                                  *)

\* The identity point (0, 1, 1, 0) as constant combinations.
IdentityGadget ==
    [X |-> LCConst(0), Y |-> LCConst(1), Z |-> LCConst(1), T |-> LCConst(0)]

\* A faulty reverse, which leaves the vector in the order it was supplied.
reverse_Skipped(sk) == sk

\* Vec::reverse
reverse(sk) == [i \in DOMAIN sk |-> sk[Len(sk) + 1 - i]]

\* The body of the loop of sk_knowledge_gadget for the variable m.var.
RECURSIVE sk_knowledge_loop_run(_, _, _)
sk_knowledge_loop_run(m, k, n) ==
    IF k > n \/ m.cs.panic THEN m
    ELSE sk_knowledge_loop_run(
       (CASE k = 1 -> SetCS(m, binary_constrain_gadget(m.cs, m.var))
          [] k = 2 -> Call(m, "Q", Ristretto_double(m.cs, m.Q))
          [] k = 3 -> Call(m, "basep_or_id",
                           Ristretto_conditionally_select(m.cs, m.basep, LCVar(m.var)))
          [] k = 4 -> Call(m, "Q", Ristretto_add(m.cs, m.Q, m.basep_or_id))),
        k + 1, n)

\* for var in sk { .. }, from the i-th variable on.
RECURSIVE sk_knowledge_loop(_, _)
sk_knowledge_loop(m, i) ==
    IF i > Len(m.sk) \/ m.cs.panic THEN m
    ELSE sk_knowledge_loop(
             sk_knowledge_loop_run(Put(m, "var", m.sk[i]), 1, 4), i + 1)

\* The statements of sk_knowledge_gadget, in order.
RECURSIVE sk_knowledge_gadget_run(_, _, _)
sk_knowledge_gadget_run(m, k, n) ==
    IF k > n \/ m.cs.panic THEN m
    ELSE sk_knowledge_gadget_run(
       (CASE k = 1 -> Put(m, "Q", IdentityGadget)
          [] k = 2 -> Put(m, "sk", reverse(m.sk))
          [] k = 3 -> sk_knowledge_loop(m, 1)
          [] k = 4 -> SetCS(m, Ristretto_equals(m.cs, m.pk, m.Q))),
        k + 1, n)

\* sk_knowledge_gadget returns nothing; its frame is kept for the point Q
\* the loop ended with.
sk_knowledge_gadget(c, basep, pk, sk) ==
    sk_knowledge_gadget_run([cs |-> c, basep |-> basep, pk |-> pk, sk |-> sk], 1, 4)

\* One (commitment, variable) pair of the unzip over the bits of sk.
PutBit(m, g) ==
    ("cs" :> g.cs) @@ ("bits" :> Append(m.bits, g.var))
        @@ ("commitments" :> Append(m.commitments, g.com)) @@ m

\* sk.iter().map(|x| prover.commit(*x, Scalar::random(..))).unzip()
RECURSIVE commit_bits(_, _)
commit_bits(m, i) ==
    IF i > Len(m.sk) \/ m.cs.panic THEN m
    ELSE commit_bits(PutBit(m, ProverCommit(m.cs, m.sk[i])), i + 1)

\* The statements of sk_knowledge_proof before prove, in order.
RECURSIVE sk_knowledge_proof_run(_, _, _)
sk_knowledge_proof_run(m, k, n) ==
    IF k > n \/ m.cs.panic THEN m
    ELSE sk_knowledge_proof_run(
       (CASE k = 1 -> commit_bits(Put(Put(m, "bits", <<>>), "commitments", <<>>), 1)
          [] k = 2 -> Call(m, "basep_gadget", from_point(m.cs, m.basep, m.rep))
          [] k = 3 -> Call(m, "pk_gadget", from_point(m.cs, m.pk, m.rep))
          [] k = 4 -> Call(m, "gadget", sk_knowledge_gadget(m.cs, m.basep_gadget,
                                                            m.pk_gadget, m.bits))),
        k + 1, n)

PutBitVar(m, g) == ("cs" :> g.cs) @@ ("sk_bit_vars" :> Append(m.sk_bit_vars, g.var)) @@ m

\* sk_bits_comms.iter().map(|x| verifier.commit(*x)).collect()
RECURSIVE commit_bit_vars(_, _)
commit_bit_vars(m, i) ==
    IF i > Len(m.sk_bits_comms) \/ m.cs.panic THEN m
    ELSE commit_bit_vars(PutBitVar(m, VerifierCommit(m.cs, m.sk_bits_comms[i])),
                         i + 1)

\* The statements of sk_knowledge_verify before verify, in order.
RECURSIVE sk_knowledge_verify_run(_, _, _)
sk_knowledge_verify_run(m, k, n) ==
    IF k > n \/ m.cs.panic THEN m
    ELSE sk_knowledge_verify_run(
       (CASE k = 1 -> commit_bit_vars(Put(m, "sk_bit_vars", <<>>), 1)
          [] k = 2 -> Call(m, "basep_gadget", from_point(m.cs, m.basep, m.rep))
          [] k = 3 -> Call(m, "pk_gadget", from_point(m.cs, m.pk, m.rep))
          [] k = 4 -> Call(m, "gadget", sk_knowledge_gadget(m.cs, m.basep_gadget,
                                                            m.pk_gadget, m.sk_bit_vars))),
        k + 1, n)

\* BulletproofGens::new(8192, 1)
SkGensCapacity == 8192

-----------------------------------------------------------------------------
(* gadgets/point/edwards_point.rs: SonnyEdwardsPointGadget                 *)

\* SonnyEdwardsPointGadget::from_point: constant combinations, no constraint.
Edwards_from_point(point) ==
    [X |-> LCConst(fq_as_scalar(point.X)), Y |-> LCConst(fq_as_scalar(point.Y)),
     Z |-> LCConst(fq_as_scalar(point.Z)), T |-> LCConst(fq_as_scalar(point.T))]

\* The statements of SonnyEdwardsPointGadget::add, in order; X, other_x, Y
\* and other_y are the input wires of the gates of A and B.
RECURSIVE Edwards_add_run(_, _, _)
Edwards_add_run(m, k, n) ==
    IF k > n \/ m.cs.panic THEN m
    ELSE Edwards_add_run(
       (CASE k = 1 -> Mul(m, "A", m.self.X, m.other.X)
          [] k = 2 -> Mul(m, "B", m.self.Y, m.other.Y)
          [] k = 3 -> Mul(m, "pt", m.self.T, m.other.T)
          [] k = 4 -> Mul(m, "C", LCVar(m.pt.o), LCConst(fq_as_scalar(EDWARDS_D)))
          [] k = 5 -> Mul(m, "D", m.self.Z, m.other.Z)
          [] k = 6 -> Put(m, "E1", LCAdd(m.self.X, LCVar(m.B.l)))
          [] k = 7 -> Con(m, LCSub(LCSub(m.E1, LCVar(m.A.l)), LCVar(m.B.l)))
          [] k = 8 -> Put(m, "E2", LCAdd(m.other.X, m.other.Y))
          [] k = 9 -> Con(m, LCSub(LCSub(m.E2, LCVar(m.A.r)), LCVar(m.B.r)))
          [] k = 10 -> Mul(m, "E12", m.E1, m.E2)
          [] k = 11 -> Mul(m, "aA", LCConst(fq_as_scalar(EDWARDS_A)), LCVar(m.A.o))
          [] k = 12 -> Mul(m, "bB", LCConst(fq_as_scalar(EDWARDS_A)), LCVar(m.B.o))
          [] k = 13 -> Put(m, "E", LCAdd(LCAdd(LCVar(m.aA.o), LCVar(m.bB.o)),
                                         LCVar(m.E12.o)))
          [] k = 14 -> Con(m, LCSub(LCSub(LCSub(m.E, LCVar(m.aA.o)), LCVar(m.bB.o)),
                                    LCVar(m.E12.o)))
          [] k = 15 -> Put(m, "F", LCSub(LCVar(m.D.o), LCVar(m.C.o)))
          [] k = 16 -> Con(m, LCAdd(LCSub(m.F, LCVar(m.D.o)), LCVar(m.C.o)))
          [] k = 17 -> Put(m, "G", LCAdd(LCVar(m.D.o), LCVar(m.C.o)))
          [] k = 18 -> Con(m, LCSub(LCSub(m.G, LCVar(m.D.o)), LCVar(m.C.o)))
          [] k = 19 -> Put(m, "H", LCAdd(LCVar(m.B.o), LCVar(m.A.o)))
          [] k = 20 -> Con(m, LCSub(LCSub(m.H, LCVar(m.B.o)), LCVar(m.A.o)))
          [] k = 21 -> Mul(m, "X", m.E, m.F)
          [] k = 22 -> Mul(m, "Y", m.G, m.H)
          [] k = 23 -> Mul(m, "Z", LCVar(m.X.r), LCVar(m.Y.l))
          [] k = 24 -> Mul(m, "T", LCVar(m.X.l), LCVar(m.Y.r))),
        k + 1, n)

Edwards_add(c, self, other) ==
    WirePoint(Edwards_add_run([cs |-> c, self |-> self, other |-> other], 1, 24))

\* The statements of SonnyEdwardsPointGadget::double, in order; X and Y are
\* the left wires of the gates of A and B.
RECURSIVE Edwards_double_run(_, _, _)
Edwards_double_run(m, k, n) ==
    IF k > n \/ m.cs.panic THEN m
    ELSE Edwards_double_run(
       (CASE k = 1 -> Mul(m, "A", m.self.X, m.self.X)
          [] k = 2 -> Mul(m, "B", m.self.Y, m.self.Y)
          [] k = 3 -> Mul(m, "z_sq", m.self.Z, m.self.Z)
          [] k = 4 -> Mul(m, "C", LCConst(2), LCVar(m.z_sq.o))
          [] k = 5 -> Mul(m, "D", LCConst(fq_as_scalar(EDWARDS_A)), LCVar(m.A.o))
          [] k = 6 -> Mul(m, "p1xy_sq", LCAdd(LCVar(m.A.l), LCVar(m.B.l)),
                          LCAdd(LCVar(m.A.l), LCVar(m.B.l)))
          [] k = 7 -> Put(m, "E", LCSub(LCSub(LCVar(m.p1xy_sq.o), LCVar(m.A.o)),
                                        LCVar(m.B.o)))
          [] k = 8 -> Con(m, LCAdd(LCAdd(LCSub(m.E, LCVar(m.p1xy_sq.o)), LCVar(m.A.o)),
                                   LCVar(m.B.o)))
          [] k = 9 -> Put(m, "G", LCAdd(LCVar(m.D.o), LCVar(m.B.o)))
          [] k = 10 -> Con(m, LCSub(LCSub(m.G, LCVar(m.D.o)), LCVar(m.B.o)))
          [] k = 11 -> Put(m, "F", LCSub(m.G, LCVar(m.C.o)))
          [] k = 12 -> Con(m, LCAdd(LCSub(m.F, m.G), LCVar(m.C.o)))
          [] k = 13 -> Put(m, "H", LCSub(LCVar(m.D.o), LCVar(m.B.o)))
          [] k = 14 -> Con(m, LCAdd(LCSub(m.H, LCVar(m.D.o)), LCVar(m.B.o)))
          [] k = 15 -> Mul(m, "X", m.E, m.F)
          [] k = 16 -> Mul(m, "Y", m.G, m.H)
          [] k = 17 -> Mul(m, "Z", m.F, m.G)
          [] k = 18 -> Mul(m, "T", m.E, m.H)),
        k + 1, n)

Edwards_double(c, self) ==
    WirePoint(Edwards_double_run([cs |-> c, self |-> self], 1, 18))

\* A faulty select that branches on the value of the bit: for 0 it returns
\* the identity without a gate.
Edwards_conditionally_select_Branching(c, self, bit) ==
    IF Eval(c, bit) = 0
    THEN [cs |-> c, X |-> LCConst(0), Y |-> LCConst(1), Z |-> LCConst(1),
          T |-> LCConst(0)]
    ELSE Ristretto_conditionally_select(c, self, bit)

\* SonnyEdwardsPointGadget::conditionally_select has, statement for
\* statement, the body of SonnyRistrettoPointGadget::conditionally_select.
Edwards_conditionally_select(c, self, bit) ==
    Ristretto_conditionally_select(c, self, bit)

\* The body of the loop of scalar_mul for the variable m.var.
RECURSIVE scalar_mul_loop_run(_, _, _)
scalar_mul_loop_run(m, k, n) ==
    IF k > n \/ m.cs.panic THEN m
    ELSE scalar_mul_loop_run(
       (CASE k = 1 -> SetCS(m, binary_constrain_gadget(m.cs, m.var))
          [] k = 2 -> Call(m, "Q", Edwards_double(m.cs, m.Q))
          [] k = 3 -> Call(m, "point_or_id",
                           Edwards_conditionally_select(m.cs, m.point, LCVar(m.var)))
          [] k = 4 -> Call(m, "Q", Edwards_add(m.cs, m.Q, m.point_or_id))),
        k + 1, n)

\* for var in sk { .. }, from the i-th variable on.
RECURSIVE scalar_mul_loop(_, _)
scalar_mul_loop(m, i) ==
    IF i > Len(m.sk) \/ m.cs.panic THEN m
    ELSE scalar_mul_loop(scalar_mul_loop_run(Put(m, "var", m.sk[i]), 1, 4), i + 1)

\* The statements of scalar_mul, in order.
RECURSIVE scalar_mul_run(_, _, _)
scalar_mul_run(m, k, n) ==
    IF k > n \/ m.cs.panic THEN m
    ELSE scalar_mul_run(
       (CASE k = 1 -> Put(m, "Q", IdentityGadget)
          [] k = 2 -> Put(m, "sk", reverse(m.sk))
          [] k = 3 -> scalar_mul_loop(m, 1)),
        k + 1, n)

\* The point Q scalar_mul returns, with the constraint system.
ReturnedQ(m) ==
    Returns(m, [cs |-> m.cs, X |-> m.Q.X, Y |-> m.Q.Y, Z |-> m.Q.Z, T |-> m.Q.T])

scalar_mul(c, point, sk) ==
    ReturnedQ(scalar_mul_run([cs |-> c, point |-> point, sk |-> sk], 1, 3))

-----------------------------------------------------------------------------
(* sk_knowledge_gadget_roundtrip_helper, and scalar_mul called by a prover *)
(* on committed bits.                                                      *)

\* The number of bits of a scalar (SonnyScalar::into_bits, scaled down).
ScalarBits == 3

BitVectors == [1 .. ScalarBits -> {0, 1}]

\* The scalar whose bits, least significant first, are b[i .. Len(b)],
\* divided by 2^(i-1).
RECURSIVE ScalarFrom(_, _)
ScalarFrom(b, i) == IF i > Len(b) THEN 0 ELSE b[i] + 2 * ScalarFrom(b, i + 1)

ScalarOf(b) == ScalarFrom(b, 1)

\* The base points of the roundtrips: the prime-order points and a
\* generator of the whole group.
SkBases == (PrimeOrderSubgroup \ {Identity}) \cup {FullOrderPoint}

\* The public keys tried against base and sk: the right one, the right one
\* moved by the point of order two, its negative, and the base itself.
PkCandidates(base, sk) ==
    {RefMul(ScalarOf(sk), base),
     RefAdd(RefMul(ScalarOf(sk), base), Order2Point),
     RefNeg(RefMul(ScalarOf(sk), base)),
     base}

InitSk ==
    /\ \/ /\ op = "sk_knowledge"
          /\ \E base \in SkBases, sk \in BitVectors :
                 \E pk \in PkCandidates(base, sk), rep \in DoubleReps :
                     inp = [basep |-> Ext(base, 1), pk |-> Ext(pk, 1), sk |-> sk,
                            rep |-> rep]
       \/ /\ op = "scalar_mul"
          /\ inp \in [point : ExtPoints, sk : BitVectors]
    /\ pc = "start"
    /\ cs = NewCS("verifier")
    /\ loc = <<>>
    /\ proof = NoProof
    /\ res = "none"

\* Ok((proof, commitments)); the model also keeps the combinations of the
\* final Q and the index of the first constraint sk_knowledge_gadget added.
sk_knowledge_proved(m) ==
    Proving(m, SkGensCapacity,
            [commitments |-> m.commitments,
             Q |-> [X |-> m.gadget.Q.X, Y |-> m.gadget.Q.Y, Z |-> m.gadget.Q.Z,
                    T |-> m.gadget.Q.T],
             first |-> Len(m.pk_gadget.cs.cons) + 1])

\* sk_knowledge_proof
SkKnowledgeProof ==
    /\ op = "sk_knowledge" /\ pc = "start"
    /\ sk_knowledge_proved(sk_knowledge_proof_run(
           [cs |-> NewCS("prover"), basep |-> inp.basep, pk |-> inp.pk,
            sk |-> inp.sk, rep |-> inp.rep], 1, 4))
    /\ UNCHANGED <<op, inp, cs>>

\* sk_knowledge_verify
SkKnowledgeVerify ==
    /\ op = "sk_knowledge" /\ pc = "proved"
    /\ Verifying(sk_knowledge_verify_run(
                     [cs |-> NewCS("verifier"), basep |-> inp.basep,
                      pk |-> inp.pk, sk_bits_comms |-> loc.commitments,
                      rep |-> inp.rep], 1, 4),
                 SkGensCapacity)
    /\ UNCHANGED <<op, inp, loc, proof>>

\* The prover's call of scalar_mul on the bits it committed to.
scalar_mul_called(g) ==
    /\ cs' = g.cs
    /\ loc' = [Q |-> [X |-> g.X, Y |-> g.Y, Z |-> g.Z, T |-> g.T]]

ScalarMul ==
    /\ op = "scalar_mul" /\ pc = "start"
    /\ scalar_mul_called(scalar_mul(
           commit_bits([cs |-> NewCS("prover"), sk |-> inp.sk, bits |-> <<>>,
                        commitments |-> <<>>], 1).cs,
           Edwards_from_point(inp.point),
           [i \in DOMAIN inp.sk |-> Committed(i)]))
    /\ pc' = "done"
    /\ UNCHANGED <<op, inp, proof, res>>

NextSk == SkKnowledgeProof \/ SkKnowledgeVerify \/ ScalarMul

SpecSk == InitSk /\ [][NextSk]_vars

-----------------------------------------------------------------------------
(* The addition roundtrip (point_addition_roundtrip_helper), and           *)
(* SonnyRistrettoPointGadget::add called by a prover on two points.        *)

ristretto_add_called(g) ==
    /\ cs' = g.cs
    /\ loc' = [X |-> g.X, Y |-> g.Y, Z |-> g.Z, T |-> g.T]

RistrettoAdd ==
    /\ op = "ristretto_add" /\ pc = "start"
    /\ ristretto_add_called(Ristretto_add(NewCS("prover"),
                                          point_coords_to_LC(inp.p1),
                                          point_coords_to_LC(inp.p2)))
    /\ pc' = "done"
    /\ UNCHANGED <<op, inp, proof, res>>

NextAdd == PointAdditionProof \/ PointAdditionVerify \/ RistrettoAdd

SpecAdd == InitAdd /\ [][NextAdd]_vars

-----------------------------------------------------------------------------
(* Properties of the addition roundtrip.                                   *)

AddInputsSum == RefAdd(Affine(inp.p1), Affine(inp.p2))

\* C4: for all curve points P1, P2 the point an add gadget returns
\* (point_addition_gadget and SonnyRistrettoPointGadget::add) represents the
\* reference sum P1 + P2 under a satisfying assignment, and the addition
\* roundtrip for (P1, P2, P1 + P2) succeeds.
C4_AdditionCorrect ==
    /\ (op = "point_addition" /\ pc # "start") =>
           /\ proof.ok
           /\ Represents(PointValue(proof.cs, loc), AddInputsSum)
           /\ (pc = "done" /\ Affine(inp.p3) = AddInputsSum) => res = "ok"
    /\ (op = "ristretto_add" /\ pc = "done") =>
           /\ Satisfied(cs)
           /\ Represents(PointEval(cs, loc), AddInputsSum)

C4_Witness ==
    /\ op = "point_addition" /\ pc = "done" /\ res = "ok"
    /\ Affine(inp.p1) # Affine(inp.p2)
    /\ Affine(inp.p1) # Identity /\ Affine(inp.p2) # Identity
    /\ inp.p1.Z # 1
    /\ Affine(inp.p3) = AddInputsSum

\* C5 as stated: every P3' that is a different affine point from P1 + P2
\* makes the addition roundtrip fail.
C5_AdditionRejectsEveryOtherPoint ==
    (op = "point_addition" /\ pc = "done" /\ Affine(inp.p3) # AddInputsSum)
        => res = "err"

\* What the addition roundtrip does reject: every point other than the sum
\* and the sum moved by the point of order two.
AdditionRejectsOffCosetPoints ==
    (op = "point_addition" /\ pc = "done")
        => (res = "ok" <=> Affine(inp.p3) \in
                {AddInputsSum, RefAdd(AddInputsSum, Order2Point)})

-----------------------------------------------------------------------------
(* Properties of the subgroup check and of committing to a point.          *)

\* 8 * P for an extended representative of P.
EightTimes(e) == RefMul(Cofactor, Affine(e))

\* A point the library hands out as a RistrettoPoint: of prime order.
ValidPoint(e) == Affine(e) \in PrimeOrderSubgroup \ {Identity}

\* C7 as stated: for every valid point, committing to it as prover and
\* re-deriving its gadget as verifier from the same commitments yields a
\* proof that verifies (here with the library's doubling agreeing with the
\* circuit's).
C7_CommitRoundTripVerifies ==
    (/\ op = "point_committing" /\ pc = "done" /\ inp.rep = "unified"
     /\ ValidPoint(inp.p1) /\ ValidPoint(inp.p2))
        => res = "ok"

\* C8 as stated: the prover's calls (with a witness) and the verifier's
\* (without) append the same gates and the same linear constraints.
C8_SameCircuitOnBothSides ==
    (op = "point_committing" /\ pc = "done") => SameCircuit(proof.cs, cs)

\* C9 as stated: the constraints ristretto_gadget adds for a point are
\* satisfiable exactly when 8P is not the identity; here for the two points
\* of the verifier's circuit, whose commitments open to the prover's values.
C9_SubgroupCheckSatisfiableIffNotTorsion ==
    (op = "point_committing" /\ pc = "done" /\ res # "panic")
        => (Satisfiable(cs, proof.cs.v)
                <=> /\ EightTimes(inp.p1) # Identity
                    /\ EightTimes(inp.p2) # Identity)

\* What holds of the arm taken with Some(point): the builder panics when 8P
\* is the identity, and otherwise its constraints are satisfiable.
SomeArmSatisfiableIffNotTorsion ==
    (op = "is_ristretto" /\ pc # "start")
        => /\ res = "panic" <=> EightTimes(inp.point) = Identity
           /\ res # "panic" => Satisfiable(proof.cs, <<>>)

\* C10 as stated: a point for which the subgroup constraints are
\* satisfiable lies in the prime-order subgroup.
C10_OnlyPrimeOrderPointsValidated ==
    (/\ op = "is_ristretto" /\ pc # "start" /\ res # "panic"
     /\ Satisfiable(proof.cs, <<>>))
        => Affine(inp.point) \in PrimeOrderSubgroup

-----------------------------------------------------------------------------
(* Properties of the scalar-multiplication ladder and of sk_knowledge.     *)

SkTimesBase == RefMul(ScalarOf(inp.sk), Affine(inp.basep))

\* The prover's assignment satisfies every constraint sk_knowledge_gadget
\* added.  The gadget allocates no free wire: its gates take the values of
\* the bits, the base point and pk, so this is its satisfiability.
GadgetSatisfied ==
    \A i \in loc.first .. Len(proof.cs.cons) :
        Eval(proof.cs, proof.cs.cons[i]) = 0

\* C1 as stated: whenever pk is not sk * base, the constraints of
\* sk_knowledge_gadget are unsatisfiable.
C1_WrongPkUnsatisfiable ==
    (/\ op = "sk_knowledge" /\ pc # "start" /\ res # "panic"
     /\ Affine(inp.pk) # SkTimesBase)
        => ~GadgetSatisfied

\* C2 as stated: for a valid base point and pk = sk * base the roundtrip
\* succeeds (here with the library's doubling agreeing with the circuit's).
C2_RoundtripSucceeds ==
    (/\ op = "sk_knowledge" /\ pc = "done" /\ inp.rep = "unified"
     /\ ValidPoint(inp.basep) /\ Affine(inp.pk) = SkTimesBase)
        => res = "ok"

\* What holds of the roundtrip: it succeeds when, besides, pk is not the
\* identity.
RoundtripSucceedsForNonIdentityPk ==
    (/\ op = "sk_knowledge" /\ pc = "done" /\ inp.rep = "unified"
     /\ ValidPoint(inp.basep) /\ Affine(inp.pk) = SkTimesBase
     /\ SkTimesBase # Identity)
        => res = "ok"

\* C3: the ladder takes the bits in reverse order, so that for a bit vector
\* given least significant bit first the point Q it ends with represents
\* (sum of b[i] * 2^i) * base: in sk_knowledge_gadget, and in scalar_mul,
\* whose constraints the prover's assignment satisfies.
C3_LadderComputesScalarMultiple ==
    /\ (op = "sk_knowledge" /\ pc # "start" /\ res # "panic") =>
           Represents(PointEval(proof.cs, loc.Q), SkTimesBase)
    /\ (op = "scalar_mul" /\ pc = "done") =>
           /\ Satisfied(cs)
           /\ Represents(PointEval(cs, loc.Q),
                         RefMul(ScalarOf(inp.sk), Affine(inp.point)))

C3_Witness ==
    /\ op = "scalar_mul" /\ pc = "done"
    /\ inp.sk[1] = 1 /\ inp.sk[Len(inp.sk)] = 0
    /\ EightTimes(inp.point) # Identity
    /\ Affine(PointEval(cs, loc.Q)) = RefMul(ScalarOf(inp.sk), Affine(inp.point))

-----------------------------------------------------------------------------
(* conditionally_select called by a prover on a committed bit, and the     *)
(* cond_select module (gadgets/cond_select/cond_select.rs).                *)

\* A faulty constraint: on the left input of the gate, not on its output.
binary_res_is_zero_Left(m) == Con(m, LCVar(m.res.l))

\* cond_select/binary.rs: cs.constrain(res.into()) on the output of the gate.
binary_res_is_zero(m) == Con(m, LCVar(m.res.o))

\* cond_select/binary.rs: binary_constrain_gadget, (1 - a) * a = 0.
cond_select_binary_constrain_gadget(c, bit) ==
    binary_res_is_zero(Mul([cs |-> c, bit |-> bit], "res",
                           LCSub(LCConst(1), LCVar(bit)), LCVar(bit))).cs

\* The statements of conditional_select_gadget, in order.
RECURSIVE conditional_select_gadget_run(_, _, _)
conditional_select_gadget_run(m, k, n) ==
    IF k > n \/ m.cs.panic THEN m
    ELSE conditional_select_gadget_run(
       (CASE k = 1 -> SetCS(m, cond_select_binary_constrain_gadget(m.cs, m.bit))
          [] k = 2 -> Mul(m, "new_x", m.point.X, LCVar(m.bit))
          [] k = 3 -> Mul(m, "new_z", m.point.Z, LCVar(m.bit))
          [] k = 4 -> Mul(m, "old_y", m.point.Y, LCConst(1))
          [] k = 5 -> Mul(m, "old_t", m.point.T, LCConst(1))),
        k + 1, n)

\* (new_x, old_y, new_z, old_t): two output wires and two left wires.
conditional_select_gadget(c, bit, point) ==
    [cs |-> conditional_select_gadget_run(
                [cs |-> c, bit |-> bit, point |-> point], 1, 5).cs,
     X |-> MultiplierOutput(c.n + 2), Y |-> MultiplierLeft(c.n + 4),
     Z |-> MultiplierOutput(c.n + 3), T |-> MultiplierLeft(c.n + 5)]

\* The values of the bit tried: Scalar::from(bit) for a few u8 values.
BitValues == 0 .. 3

\* The prover after prover.commit(Scalar::from(bit), ..).
BitCommitted(bit) == ProverCommit(NewCS("prover"), bit)

\* RistrettoPoint::identity()
IdentityExt == [X |-> 0, Y |-> 1, Z |-> 1, T |-> 0]

\* The slices of four points handed to cond_selection_roundtrip_helper
\* (points[0] .. points[3] of the source are the elements 1 .. 4): two points
\* of the prime-order subgroup, a candidate for the sum and the point the
\* verifier adds in the place of the selected one.
SelectionPoints ==
    {<<Ext(p1, 1), Ext(p2, 1), Ext(p3, 1), Ext(p4, 1)>> :
        p1 \in PrimeOrderSubgroup, p2 \in PrimeOrderSubgroup,
        p3 \in CurvePoints, p4 \in PrimeOrderSubgroup}

InitSelect ==
    /\ \/ /\ op \in {"Ristretto_conditionally_select",
                     "Edwards_conditionally_select",
                     "conditional_select_gadget"}
          /\ inp \in [point : ExtPoints, bit : BitValues]
       \/ /\ op = "cond_selection"
          /\ inp \in [points : SelectionPoints, bit : BitValues]
       \/ /\ op = "binary_constrain"
          /\ inp \in [bit : Fq]
       \/ /\ op = "is_not_zero"
          /\ inp \in [fe : Fq]
       \/ /\ op = "binary_verify"
          /\ inp \in [bit : Fq, sent : 0 .. 2]
       \/ /\ op \in {"verifier_commit_to_sonny_point",
                     "verifier_commit_to_sonny_edwards_point"}
          /\ inp \in [p : {Ext(pt, 1) : pt \in PrimeOrderSubgroup},
                      sent : 3 .. 5, rep : DoubleReps]
    /\ pc = "start"
    /\ cs = NewCS("verifier")
    /\ loc = <<>>
    /\ proof = NoProof
    /\ res = "none"

\* The caller keeps the point the gadget returned.
select_called(g) ==
    /\ cs' = g.cs
    /\ loc' = [P |-> [X |-> g.X, Y |-> g.Y, Z |-> g.Z, T |-> g.T]]
    /\ pc' = "done"

RistrettoConditionallySelect ==
    /\ op = "Ristretto_conditionally_select" /\ pc = "start"
    /\ select_called(Ristretto_conditionally_select(
           BitCommitted(inp.bit).cs, point_coords_to_LC(inp.point),
           LCVar(BitCommitted(inp.bit).var)))
    /\ UNCHANGED <<op, inp, proof, res>>

EdwardsConditionallySelect ==
    /\ op = "Edwards_conditionally_select" /\ pc = "start"
    /\ select_called(Edwards_conditionally_select(
           BitCommitted(inp.bit).cs, Edwards_from_point(inp.point),
           LCVar(BitCommitted(inp.bit).var)))
    /\ UNCHANGED <<op, inp, proof, res>>

\* conditional_select_gadget(&mut prover, var, lcs[0].clone())
ConditionalSelectGadget ==
    /\ op = "conditional_select_gadget" /\ pc = "start"
    /\ select_called(conditional_select_gadget(
           BitCommitted(inp.bit).cs, BitCommitted(inp.bit).var,
           point_coords_to_LC(inp.point)))
    /\ UNCHANGED <<op, inp, proof, res>>

\* BulletproofGens::new(32, 1) in cond_selection_roundtrip_helper.
CondSelectGensCapacity == 32

\* let p_choosen = match bit { 0 => points[0], _ => identity() }
p_choosen(bit, points) == IF bit = 0 THEN points[1] ELSE IdentityExt

\* cond_selection_proof: the gadget is applied to the prover that holds the
\* committed bit, and the proof returned is the one point_addition_proof
\* makes with a prover of its own.
CondSelectionProof ==
    /\ op = "cond_selection" /\ pc = "start"
    /\ proof' = Prove(point_addition_circuit(NewCS("prover"),
                          p_choosen(inp.bit, inp.points), inp.points[2],
                          inp.points[3], EDWARDS_A, EDWARDS_D).cs,
                      CondSelectGensCapacity)
    /\ loc' = [com |-> BitCommitted(inp.bit).com,
               selected |-> conditional_select_gadget(
                   BitCommitted(inp.bit).cs, BitCommitted(inp.bit).var,
                   point_coords_to_LC(inp.points[1]))]
    /\ pc' = IF proof'.ok THEN "proved" ELSE "done"
    /\ res' = IF proof'.ok THEN "none" ELSE "err"
    /\ UNCHANGED <<op, inp, cs>>

\* cond_selection_verify: the gadget is applied to the verifier that holds
\* the commitment, and the result is point_addition_verify's on points[3],
\* points[1] and points[2].
CondSelectionVerify ==
    /\ op = "cond_selection" /\ pc = "proved"
    /\ cs' = conditional_select_gadget(
                 VerifierCommit(NewCS("verifier"), loc.com).cs,
                 VerifierCommit(NewCS("verifier"), loc.com).var,
                 point_coords_to_LC(inp.points[1])).cs
    /\ res' = Outcome(Verify(proof,
                  point_addition_circuit(NewCS("verifier"), inp.points[4],
                      inp.points[2], inp.points[3], EDWARDS_A, EDWARDS_D).cs,
                  CondSelectGensCapacity))
    /\ pc' = "done"
    /\ UNCHANGED <<op, inp, loc, proof>>

\* BulletproofGens::new(32, 1) in binary_constrain_roundtrip_helper.
BinaryGensCapacity == 32

\* commitments.iter().map(|V| verifier.commit(*V)).collect()
RECURSIVE commit_all(_, _, _)
commit_all(c, commitments, i) ==
    IF i > Len(commitments) THEN c
    ELSE commit_all(VerifierCommit(c, commitments[i]).cs, commitments, i + 1)

\* binary_verify up to verifier.verify: vars[0] of an empty list is an index
\* out of bounds.
binary_verify(commitments) ==
    IF commitments = <<>>
    THEN Panic([cs |-> NewCS("verifier")], TRUE)
    ELSE [cs |-> cond_select_binary_constrain_gadget(
                     commit_all(NewCS("verifier"), commitments, 1),
                     Committed(1))]

\* binary_proof
BinaryProof ==
    /\ op \in {"binary_constrain", "binary_verify"} /\ pc = "start"
    /\ Proving([cs |-> cond_select_binary_constrain_gadget(
                           BitCommitted(inp.bit).cs, BitCommitted(inp.bit).var)],
               BinaryGensCapacity, [com |-> BitCommitted(inp.bit).com])
    /\ UNCHANGED <<op, inp, cs>>

\* binary_verify(.., &commitments, &proof) in the roundtrip helper.
BinaryVerify ==
    /\ op = "binary_constrain" /\ pc = "proved"
    /\ Verifying(binary_verify(<<loc.com>>), BinaryGensCapacity)
    /\ UNCHANGED <<op, inp, loc, proof>>

\* A list of n commitments made of those of `commitments`, repeated or cut.
Resized(commitments, n) ==
    [i \in 1 .. n |-> commitments[((i - 1) % Len(commitments)) + 1]]

\* binary_verify called with a commitment list of the caller's own length
\* and binary_proof's proof.
BinaryVerifyCalled ==
    /\ op = "binary_verify" /\ pc = "proved"
    /\ Verifying(binary_verify(Resized(<<loc.com>>, inp.sent)),
                 BinaryGensCapacity)
    /\ UNCHANGED <<op, inp, loc, proof>>

\* The commitments a prover makes to the four coordinates of a point.
PointCommitments(p) ==
    <<Commitment(fq_as_scalar(p.X)), Commitment(fq_as_scalar(p.Y)),
      Commitment(fq_as_scalar(p.Z)), Commitment(fq_as_scalar(p.T))>>

\* edwards_point.rs: verifier_commit_to_sonny_edwards_point.
verifier_commit_to_sonny_edwards_point(c, commitments) ==
    IF Len(commitments) # 4
    THEN Panic([cs |-> c], TRUE)
    ELSE [cs |-> commit_all(c, commitments, 1),
          X |-> LCVar(Committed(Len(c.v) + 1)),
          Y |-> LCVar(Committed(Len(c.v) + 2)),
          Z |-> LCVar(Committed(Len(c.v) + 3)),
          T |-> LCVar(Committed(Len(c.v) + 4))]

\* A function without a Result returned to its caller, or aborted.
commit_called(g) ==
    /\ cs' = g.cs
    /\ res' = IF g.cs.panic THEN "panic" ELSE "none"
    /\ pc' = "done"

\* verifier_commit_to_sonny_point(&mut verifier, &commitments)
VerifierCommitToSonnyPoint ==
    /\ op = "verifier_commit_to_sonny_point" /\ pc = "start"
    /\ commit_called(verifier_commit_to_sonny_point(NewCS("verifier"),
           Resized(PointCommitments(inp.p), inp.sent), inp.rep))
    /\ UNCHANGED <<op, inp, loc, proof>>

\* verifier_commit_to_sonny_edwards_point(&mut verifier, &commitments)
VerifierCommitToSonnyEdwardsPoint ==
    /\ op = "verifier_commit_to_sonny_edwards_point" /\ pc = "start"
    /\ commit_called(verifier_commit_to_sonny_edwards_point(NewCS("verifier"),
           Resized(PointCommitments(inp.p), inp.sent)))
    /\ UNCHANGED <<op, inp, loc, proof>>

\* BulletproofGens::new(32, 1) in is_not_zero_roundtrip_helper.
IsNotZeroGensCapacity == 32

\* gadgets/scalar.rs: nonzero_gadget(fe_as_lc, Some(fe), cs), the same
\* statements as util.rs's.
is_not_zero_circuit(c, fe) ==
    [cs |-> nonzero_gadget(c, LCConst(fq_as_scalar(fe)), Some(fe))]

\* is_not_zero_proof
IsNotZeroProof ==
    /\ op = "is_not_zero" /\ pc = "start"
    /\ Proving(is_not_zero_circuit(NewCS("prover"), inp.fe),
               IsNotZeroGensCapacity, <<>>)
    /\ UNCHANGED <<op, inp, cs>>

\* is_not_zero_verify
IsNotZeroVerify ==
    /\ op = "is_not_zero" /\ pc = "proved"
    /\ Verifying(is_not_zero_circuit(NewCS("verifier"), inp.fe),
                 IsNotZeroGensCapacity)
    /\ UNCHANGED <<op, inp, loc, proof>>

NextSelect ==
    \/ RistrettoConditionallySelect
    \/ EdwardsConditionallySelect
    \/ ConditionalSelectGadget
    \/ CondSelectionProof
    \/ CondSelectionVerify
    \/ BinaryProof
    \/ BinaryVerify
    \/ IsNotZeroProof
    \/ IsNotZeroVerify
    \/ BinaryVerifyCalled
    \/ VerifierCommitToSonnyPoint
    \/ VerifierCommitToSonnyEdwardsPoint

SpecSelect == InitSelect /\ [][NextSelect]_vars

\* (X*bit, bit*Y + 1 - bit, bit*Z + 1 - bit, T*bit)
SelectFormula(e, bit) ==
    [X |-> FMul(e.X, bit), Y |-> FSub(FAdd(FMul(bit, e.Y), 1), bit),
     Z |-> FSub(FAdd(FMul(bit, e.Z), 1), bit), T |-> FMul(e.T, bit)]


\* C11: conditionally_select (of the Ristretto and of the Edwards gadget)
\* returns wires whose values are (X*bit, bit*Y + 1 - bit, bit*Z + 1 - bit,
\* T*bit): the point itself for bit = 1 and (0, 1, 1, 0) for bit = 0, and the
\* constraints it adds hold of these values.
C11_ConditionallySelectFormula ==
    (/\ op \in {"Ristretto_conditionally_select", "Edwards_conditionally_select"}
     /\ pc = "done")
        => /\ PointEval(cs, loc.P) = SelectFormula(inp.point, inp.bit)
           /\ inp.bit = 1 => PointEval(cs, loc.P) = inp.point
           /\ inp.bit = 0 => PointEval(cs, loc.P) = IdentityExt
           /\ Satisfied(cs)

C11_Witness ==
    /\ op = "Edwards_conditionally_select" /\ pc = "done"
    /\ inp.bit = 0 /\ Affine(inp.point) # Identity /\ inp.point.Z = 2
    /\ PointEval(cs, loc.P) = IdentityExt

\* C12 as stated: the point conditional_select_gadget returns has the
\* coordinates (0, 1, 1, 0) for bit = 0 and the input point's for bit = 1.
C12_SelectGadgetIdentityOrPoint ==
    (op = "conditional_select_gadget" /\ pc = "done")
        => /\ inp.bit = 0 => PointValue(cs, loc.P) = IdentityExt
           /\ inp.bit = 1 => PointValue(cs, loc.P) = inp.point

\* What holds of conditional_select_gadget: it returns (X*bit, Y, Z*bit, T),
\* the input point for bit = 1.
SelectGadgetScalesXAndZ ==
    (op = "conditional_select_gadget" /\ pc = "done")
        => PointValue(cs, loc.P) =
               [X |-> FMul(inp.point.X, inp.bit), Y |-> inp.point.Y,
                Z |-> FMul(inp.point.Z, inp.bit), T |-> inp.point.T]

\* C13: for every bit other than 0 and 1 and every choice of the points,
\* cond_selection_proof followed by cond_selection_verify fails.
C13_NonBooleanBitRejected ==
    (op = "cond_selection" /\ pc = "done" /\ inp.bit \notin {0, 1})
        => res = "err"

\* What the roundtrip decides: whether points[3] is the point the prover
\* chose and points[2] is accepted as its sum with points[1].
CondSelectionAcceptsTheAddition ==
    (op = "cond_selection" /\ pc = "done" /\ res = "ok")
        => /\ inp.points[4] = p_choosen(inp.bit, inp.points)
           /\ Affine(inp.points[3]) \in
                  NearSum(RefAdd(Affine(inp.points[4]), Affine(inp.points[2])))

\* The boolean gadget of gadgets/boolean.rs on one committed wire.
boolean_circuit ==
    binary_constrain_gadget(
        VerifierCommit(NewCS("verifier"), Commitment(0)).cs, Committed(1))

\* C14: the constraints binary_constrain_gadget adds for a wire are
\* satisfiable exactly when the wire's value is 0 or 1 (both the gadget of
\* boolean.rs and the one of cond_select/binary.rs), and the boolean
\* roundtrip succeeds for 0 and 1 and fails for every other field value.
C14_BooleanIffZeroOrOne ==
    (op = "binary_constrain" /\ pc = "done")
        => /\ res = Outcome(inp.bit \in {0, 1})
           /\ Satisfiable(cs, <<inp.bit>>) <=> inp.bit \in {0, 1}
           /\ Satisfiable(boolean_circuit, <<inp.bit>>) <=> inp.bit \in {0, 1}

C14_Witness ==
    /\ op = "binary_constrain" /\ pc = "done" /\ inp.bit = 5 /\ res = "err"
    /\ cs.n = 1 /\ cs.cons[3] = <<<<MultiplierOutput(1), 1>>>>

\* The non-zero gadget's circuit for the wire value v, built without a
\* witness.
nonzero_circuit(v) ==
    nonzero_gadget(NewCS("verifier"), LCConst(fq_as_scalar(v)), None)

\* C15: wire * inv = 1 has a satisfying inverse witness exactly when the
\* wire's value is not 0, and for every non-zero value the witness the
\* prover allocates satisfies it.
C15_NonZeroIffInverseExists ==
    (op = "is_not_zero" /\ pc = "done")
        => /\ Satisfiable(nonzero_circuit(inp.fe), <<>>) <=> inp.fe # 0
           /\ inp.fe # 0 => (res = "ok" /\ Satisfied(proof.cs))

C15_Witness ==
    /\ op = "is_not_zero" /\ pc = "done" /\ inp.fe = 3 /\ res = "ok"
    /\ proof.cs.a[1] = <<FInv(3), 1, FInv(3)>>

\* C16: nonzero_gadget with the value 0 as assignment ends in an error result
\* or a proof that fails verification, never in an abort.
C16_ZeroWitnessIsRecoverable ==
    (op = "is_not_zero" /\ pc = "done" /\ inp.fe = 0) => res = "err"

\* C17: from_point on a point whose 8-multiple is the identity ends the
\* is_ristretto roundtrip with an error or a failed verification, not with
\* an abort.
C17_TorsionPointFailureIsAResult ==
    (op = "is_ristretto" /\ pc = "done" /\ EightTimes(inp.point) = Identity)
        => res = "err"

\* What holds: for such a point the builder aborts, in from_point as in
\* prover_commit_to_sonny_point.
TorsionPointAborts ==
    /\ (op = "is_ristretto" /\ pc = "done" /\ EightTimes(inp.point) = Identity)
           => res = "panic"
    /\ (/\ op = "point_committing" /\ pc = "done"
        /\ EightTimes(inp.p1) = Identity)
           => res = "panic"

\* C18: a verifier-side entry point handed a commitment list of the wrong
\* length returns Err and never panics: binary_verify with a list of a
\* length other than 1, verifier_commit_to_sonny_point and
\* verifier_commit_to_sonny_edwards_point with one of a length other than 4.
C18_MalformedInputIsAnErr ==
    /\ (op = "binary_verify" /\ pc = "done" /\ inp.sent # 1) => res = "err"
    /\ (/\ op \in {"verifier_commit_to_sonny_point",
                   "verifier_commit_to_sonny_edwards_point"}
        /\ pc = "done" /\ inp.sent # 4)
           => res # "panic"

\* What holds: an empty list aborts binary_verify and a longer one is
\* rejected with Err; any length other than 4 aborts the two functions that
\* commit to a point, and length 4 does not.
MalformedListAborts ==
    /\ (op = "binary_verify" /\ pc = "done")
           => res = (CASE inp.sent = 0 -> "panic"
                       [] inp.sent = 1 -> Outcome(inp.bit \in {0, 1})
                       [] inp.sent = 2 -> "err")
    /\ (/\ op \in {"verifier_commit_to_sonny_point",
                   "verifier_commit_to_sonny_edwards_point"}
        /\ pc = "done")
           => res = IF inp.sent # 4 THEN "panic" ELSE "none"

-----------------------------------------------------------------------------
(* The intermediate E of the addition gadgets.                             *)

\* The value the assignment of c gives E: every add gadget hands E to the
\* multiplication for X3, its ninth gate, as the left input.
EValue(c) == ValOf(c, MultiplierLeft(9))

\* (X1 + Y1) * (X2 + Y2), A = X1 * X2 and B = Y1 * Y2 of the input points.
E12OfInputs == FMul(FAdd(inp.p1.X, inp.p1.Y), FAdd(inp.p2.X, inp.p2.Y))

AOfInputs == FMul(inp.p1.X, inp.p2.X)

BOfInputs == FMul(inp.p1.Y, inp.p2.Y)

\* SonnyEdwardsPointGadget::add on the inputs of an addition.
EdwardsAddOfInputs ==
    Edwards_add(NewCS("prover"), Edwards_from_point(inp.p1),
                Edwards_from_point(inp.p2)).cs

\* The parameter a of the gadget that ran.
AddParameterA == IF op = "point_addition" THEN inp.a ELSE EDWARDS_A

\* C19 as stated: E equals (X1+Y1)*(X2+Y2) - a*A - a*B.
C19_EAsStated ==
    /\ (op = "point_addition" /\ pc # "start")
           => EValue(proof.cs) =
                  FSub(FSub(E12OfInputs, FMul(AddParameterA, AOfInputs)),
                       FMul(AddParameterA, BOfInputs))
    /\ (op = "ristretto_add" /\ pc = "done")
           => EValue(cs) =
                  FSub(FSub(E12OfInputs, FMul(AddParameterA, AOfInputs)),
                       FMul(AddParameterA, BOfInputs))

\* C19 amended: the E of point_addition_gadget, SonnyRistrettoPointGadget::add
\* and SonnyEdwardsPointGadget::add equals (X1+Y1)*(X2+Y2) + a*A + a*B, which
\* for the parameter a = -1 the gadgets use is (X1+Y1)*(X2+Y2) - A - B.
C19_EAddsTheScaledProducts ==
    /\ AddParameterA = FNeg(1)
    /\ (op = "point_addition" /\ pc # "start")
           => /\ EValue(proof.cs) =
                     FAdd(FAdd(E12OfInputs, FMul(AddParameterA, AOfInputs)),
                          FMul(AddParameterA, BOfInputs))
              /\ EValue(proof.cs) = FSub(FSub(E12OfInputs, AOfInputs), BOfInputs)
    /\ (op = "ristretto_add" /\ pc = "done")
           => /\ EValue(cs) =
                     FAdd(FAdd(E12OfInputs, FMul(AddParameterA, AOfInputs)),
                          FMul(AddParameterA, BOfInputs))
              /\ EValue(cs) = FSub(FSub(E12OfInputs, AOfInputs), BOfInputs)
              /\ EValue(EdwardsAddOfInputs) = EValue(cs)

C19_Witness ==
    /\ op = "point_addition" /\ pc = "done" /\ res = "ok"
    /\ FAdd(AOfInputs, BOfInputs) # 0
    /\ EValue(proof.cs) = FSub(FSub(E12OfInputs, AOfInputs), BOfInputs)
    /\ EValue(proof.cs) # FAdd(FAdd(E12OfInputs, AOfInputs), BOfInputs)

-----------------------------------------------------------------------------
(* The shape of the ladder's circuit.                                      *)

\* What a constraint system holds apart from the values: the number of
\* committed variables, the gates with their input combinations and the
\* linear constraints, each over wire indices.
Shape(c) ==
    [committed |-> Len(c.v), n |-> c.n, gates |-> c.gates, cons |-> c.cons,
     at |-> c.at]

\* The system a prover has after scalar_mul on the committed bits sk.
ScalarMulCircuit(point, sk) ==
    scalar_mul(commit_bits([cs |-> NewCS("prover"), sk |-> sk, bits |-> <<>>,
                            commitments |-> <<>>], 1).cs,
               Edwards_from_point(point),
               [i \in DOMAIN sk |-> Committed(i)]).cs

\* The system sk_knowledge_proof builds for the bits sk.
SkKnowledgeCircuit(sk) ==
    sk_knowledge_proof_run([cs |-> NewCS("prover"), basep |-> inp.basep,
                            pk |-> inp.pk, sk |-> sk, rep |-> inp.rep], 1, 4).cs

ZeroBits == [i \in 1 .. ScalarBits |-> 0]

\* C20: the ladder of sk_knowledge_gadget and of scalar_mul appends the same
\* gates and linear constraints over the same wire indices whatever the
\* values of the bits (every bit vector yields the circuit of the all-zero
\* vector of its length), and the gates of scalar_mul are those of one
\* boolean check, doubling, select and addition for each bit.
C20_LadderShapeIndependentOfBits ==
    /\ (op = "scalar_mul" /\ pc = "done")
           => /\ Shape(cs) = Shape(ScalarMulCircuit(inp.point, ZeroBits))
              /\ cs.n = Len(inp.sk) * ScalarMulCircuit(inp.point, <<1>>).n
    /\ (op = "sk_knowledge" /\ pc # "start" /\ res # "panic")
           => Shape(proof.cs) = Shape(SkKnowledgeCircuit(ZeroBits))

C20_Witness ==
    /\ op = "scalar_mul" /\ pc = "done"
    /\ inp.sk[1] = 1 /\ inp.sk[2] = 0 /\ Affine(inp.point) # Identity
    /\ cs.v # ZeroBits /\ cs.n > Len(inp.sk)
    /\ Shape(cs) = Shape(ScalarMulCircuit(inp.point, ZeroBits))

-----------------------------------------------------------------------------
(* The invariant of extended coordinates.                                  *)

\* X * Y = Z * T
ExtendedInvariant(e) == FMul(e.X, e.Y) = FMul(e.Z, e.T)

\* The point a gadget returned satisfies the invariant under the assignment
\* of the constraint system it was returned with.
ReturnsExtended(g) == ExtendedInvariant(PointEval(g.cs, g))

\* The prover's system after committing to the bits of inp.sk.
BitsCommitted ==
    commit_bits([cs |-> NewCS("prover"), sk |-> inp.sk, bits |-> <<>>,
                 commitments |-> <<>>], 1).cs

\* Q after the first i iterations of scalar_mul on the committed bits of
\* inp.sk, which take the last i bits, the last one first.
LadderQ(i) ==
    scalar_mul(BitsCommitted, Edwards_from_point(inp.point),
               [j \in 1 .. i |-> Committed(Len(inp.sk) - i + j)])

\* C21: every point add, double and conditionally_select return for a bit in
\* {0,1} satisfies X*Y = Z*T when their inputs do, and the accumulator Q of
\* the ladder satisfies it from the initial identity to the terminal state:
\* after every iteration of scalar_mul, for the double, the select and the
\* add of every iteration, and for the Q sk_knowledge_gadget ends with.
C21_ExtendedCoordinatesInvariant ==
    /\ (op = "scalar_mul" /\ pc = "done")
           => /\ ExtendedInvariant(inp.point)
              /\ LadderQ(Len(inp.sk)).cs = cs
              /\ \A i \in 0 .. Len(inp.sk) : ReturnsExtended(LadderQ(i))
              /\ \A i \in 1 .. Len(inp.sk) :
                     /\ ReturnsExtended(
                            Edwards_double(LadderQ(i - 1).cs, LadderQ(i - 1)))
                     /\ ReturnsExtended(
                            Ristretto_double(LadderQ(i - 1).cs, LadderQ(i - 1)))
                     /\ ReturnsExtended(
                            Ristretto_conditionally_select(BitsCommitted,
                                point_coords_to_LC(inp.point),
                                LCVar(Committed(i))))
                     /\ ReturnsExtended(
                            Ristretto_add(LadderQ(i).cs, LadderQ(i - 1),
                                          LadderQ(i)))
    /\ (op = "sk_knowledge" /\ pc # "start" /\ res # "panic")
           => ExtendedInvariant(PointEval(proof.cs, loc.Q))

C21_Witness ==
    /\ op = "scalar_mul" /\ pc = "done"
    /\ inp.sk[1] = 1 /\ inp.sk[2] = 0 /\ inp.point.Z = 2
    /\ PointEval(cs, loc.Q).X # 0
    /\ PointEval(cs, loc.Q).T # 0
    /\ ExtendedInvariant(PointEval(cs, loc.Q))

-----------------------------------------------------------------------------
(* Doubling by the dedicated formula and by addition.                      *)

\* Two extended representatives of one affine point.
SameAffine(e1, e2) == e1.Z # 0 /\ e2.Z # 0 /\ Affine(e1) = Affine(e2)

\* The values of the point a gadget returned, under the assignment of the
\* constraint system it was returned with.
Returned(g) == PointEval(g.cs, g)

\* point_addition_gadget with both operands the point doubled.
AdditionOfEqualOperands ==
    PointValue(
        point_addition_gadget(NewCS("prover"), point_coords_to_LC(inp.p1),
            point_coords_to_LC(inp.p1), LCConst(fq_as_scalar(inp.d)),
            LCConst(fq_as_scalar(inp.a))).cs,
        point_addition_gadget(NewCS("prover"), point_coords_to_LC(inp.p1),
            point_coords_to_LC(inp.p1), LCConst(fq_as_scalar(inp.d)),
            LCConst(fq_as_scalar(inp.a))))

\* C22: for every curve point P the dedicated doubling formula
\* (point_doubling_gadget, SonnyEdwardsPointGadget::double) returns a point
\* representing the same affine point as the addition gadget called with
\* both operands equal to P (point_addition_gadget,
\* SonnyEdwardsPointGadget::add, SonnyRistrettoPointGadget::double).
C22_DoublingEqualsAdditionOfEqualOperands ==
    (op = "point_doubling" /\ pc # "start")
        => /\ SameAffine(PointValue(proof.cs, loc), AdditionOfEqualOperands)
           /\ SameAffine(Returned(Edwards_double(NewCS("prover"),
                                      Edwards_from_point(inp.p1))),
                         Returned(Edwards_add(NewCS("prover"),
                                      Edwards_from_point(inp.p1),
                                      Edwards_from_point(inp.p1))))
           /\ SameAffine(Returned(Edwards_double(NewCS("prover"),
                                      Edwards_from_point(inp.p1))),
                         Returned(Ristretto_double(NewCS("prover"),
                                      point_coords_to_LC(inp.p1))))
           /\ SameAffine(PointValue(proof.cs, loc),
                         Returned(Edwards_double(NewCS("prover"),
                                      Edwards_from_point(inp.p1))))

C22_Witness ==
    /\ op = "point_doubling" /\ pc = "done"
    /\ inp.p1.Z = 2 /\ RefMul(4, Affine(inp.p1)) # Identity
    /\ PointValue(proof.cs, loc) # AdditionOfEqualOperands
    /\ SameAffine(PointValue(proof.cs, loc), AdditionOfEqualOperands)

-----------------------------------------------------------------------------
(* The two equality checks, each called by a prover on two points.         *)

\* The statements of SonnyEdwardsPointGadget::equal, in order; other_z and Z
\* are the right wires of the gates of a and b.
RECURSIVE Edwards_equal_run(_, _, _)
Edwards_equal_run(m, k, n) ==
    IF k > n \/ m.cs.panic THEN m
    ELSE Edwards_equal_run(
       (CASE k = 1 -> Mul(m, "a", m.self.X, m.other.Z)
          [] k = 2 -> Mul(m, "b", m.other.X, m.self.Z)
          [] k = 3 -> Con(m, LCSub(LCVar(m.a.o), LCVar(m.b.o)))
          [] k = 4 -> Mul(m, "c", m.self.Y, LCVar(m.a.r))
          [] k = 5 -> Mul(m, "d", m.other.Y, LCVar(m.b.r))
          [] k = 6 -> Con(m, LCSub(LCVar(m.c.o), LCVar(m.d.o)))),
        k + 1, n)

\* A faulty equal, which stops after comparing the X coordinates.
Edwards_equal_XOnly(c, self, other) ==
    Edwards_equal_run([cs |-> c, self |-> self, other |-> other], 1, 3).cs

Edwards_equal(c, self, other) ==
    Edwards_equal_run([cs |-> c, self |-> self, other |-> other], 1, 6).cs

InitEqual ==
    /\ op \in {"Ristretto_equals", "Edwards_equal"}
    /\ inp \in [p1 : ExtPoints, p2 : ExtPoints]
    /\ pc = "start"
    /\ cs = NewCS("verifier")
    /\ loc = <<>>
    /\ proof = NoProof
    /\ res = "none"

\* The check was added to the prover's system: it accepts the two points
\* when the assignment satisfies what it added.
equality_called(c) ==
    /\ cs' = c
    /\ res' = Outcome(Satisfied(c))
    /\ pc' = "done"

\* self.equals(&mut prover, other)
RistrettoEquals ==
    /\ op = "Ristretto_equals" /\ pc = "start"
    /\ equality_called(Ristretto_equals(NewCS("prover"),
                                        point_coords_to_LC(inp.p1),
                                        point_coords_to_LC(inp.p2)))
    /\ UNCHANGED <<op, inp, loc, proof>>

\* self.equal(&other, &mut prover)
EdwardsEqual ==
    /\ op = "Edwards_equal" /\ pc = "start"
    /\ equality_called(Edwards_equal(NewCS("prover"),
                                     Edwards_from_point(inp.p1),
                                     Edwards_from_point(inp.p2)))
    /\ UNCHANGED <<op, inp, loc, proof>>

NextEqual == RistrettoEquals \/ EdwardsEqual

SpecEqual == InitEqual /\ [][NextEqual]_vars

\* The answer of equals on the two points of the state.
EqualsAnswer ==
    Outcome(Satisfied(Ristretto_equals(NewCS("prover"),
                                       point_coords_to_LC(inp.p1),
                                       point_coords_to_LC(inp.p2))))

\* C23: the two equality checks are not interchangeable: for every curve
\* point P in any scaling, equals (X1*Y2 = Y1*X2) accepts the pair of P and
\* P + (0,-1), which equal (X1*Z2 = X2*Z1 and Y1*Z2 = Y2*Z1) rejects; equal
\* accepts exactly the pairs of representatives of one affine point, and
\* equals accepts every pair equal accepts.
C23_EqualityChecksDiffer ==
    (op = "Edwards_equal" /\ pc = "done")
        => /\ res = Outcome(Affine(inp.p1) = Affine(inp.p2))
           /\ res = "ok" => EqualsAnswer = "ok"
           /\ Affine(inp.p2) = RefAdd(Affine(inp.p1), Order2Point)
                  => (EqualsAnswer = "ok" /\ res = "err")

C23_Witness ==
    /\ op = "Edwards_equal" /\ pc = "done" /\ res = "err"
    /\ EqualsAnswer = "ok"
    /\ Affine(inp.p1) \in PrimeOrderSubgroup \ {Identity}
    /\ Affine(inp.p2) = RefAdd(Affine(inp.p1), Order2Point)

\* Both points of the state are in the prime-order subgroup.
BothOfPrimeOrder ==
    Affine(inp.p1) \in PrimeOrderSubgroup /\ Affine(inp.p2) \in PrimeOrderSubgroup

\* C27: for every two points P and Q of the prime-order subgroup in extended
\* coordinates, the constraint X_P*Y_Q = Y_P*X_Q that equals adds (and that
\* point_addition_constrain_gadget and point_doubling_constrain_gadget add)
\* is satisfied if and only if P and Q are the same affine point.
C27_EqualsExactInPrimeOrderSubgroup ==
    (op = "Ristretto_equals" /\ pc = "done" /\ BothOfPrimeOrder)
        => /\ res = Outcome(Affine(inp.p1) = Affine(inp.p2))
           /\ Satisfied(point_addition_constrain_gadget(NewCS("prover"), inp.p2,
                            point_coords_to_LC(inp.p1)))
                  <=> Affine(inp.p1) = Affine(inp.p2)
           /\ Satisfied(point_doubling_constrain_gadget(NewCS("prover"),
                            point_coords_to_LC(inp.p2),
                            point_coords_to_LC(inp.p1)))
                  <=> Affine(inp.p1) = Affine(inp.p2)

C27_Witness ==
    /\ op = "Ristretto_equals" /\ pc = "done" /\ BothOfPrimeOrder
    /\ inp.p1 # inp.p2 /\ Affine(inp.p1) = Affine(inp.p2)
    /\ Affine(inp.p1) # Identity /\ res = "ok"

-----------------------------------------------------------------------------
(* tests/edwards_point.rs, tests/ristretto_point.rs: addition and doubling *)
(* of secret points                                                        *)

\* BulletproofGens::new(128, 1) in point_addition_roundtrip_helper.
SecretAddGensCapacity == 128

\* BulletproofGens::new(128, 1) in point_doubling_roundtrip_helper.
SecretDoubleGensCapacity == 128

\* The second operands of the additions the model runs.
SecretOperands == {Ext(FullOrderPoint, 1), Ext(RefMul(8, FullOrderPoint), 2),
                   Ext(Order2Point, 1)}

InitSecret ==
    /\ \/ /\ op = "point_addition"
          /\ inp \in {[p1 |-> A, p2 |-> B, p3 |-> C, rep |-> rep] :
                          <<A, B, C>> \in
                              {<<A, B, UnifiedAdd(A, B)>> :
                                   A \in ExtPoints, B \in SecretOperands}
                              \cup {<<A, B, A>> :
                                        A \in ExtPoints, B \in SecretOperands},
                          rep \in DoubleReps}
       \/ /\ op = "point_doubling"
          /\ inp \in {[p1 |-> A, p2 |-> B, rep |-> rep] :
                          <<A, B>> \in {<<A, UnifiedAdd(A, A)>> : A \in ExtPoints}
                                       \cup {<<A, A>> : A \in ExtPoints},
                          rep \in DoubleReps}
    /\ pc = "start"
    /\ cs = NewCS("verifier")
    /\ loc = <<>>
    /\ proof = NoProof
    /\ res = "none"

\* The statements of point_addition_proof before prove, in order.
RECURSIVE secret_addition_proof_run(_, _, _)
secret_addition_proof_run(m, k, n) ==
    IF k > n \/ m.cs.panic THEN m
    ELSE secret_addition_proof_run(
       (CASE k = 1 -> Call(m, "P1", prover_commit_to_sonny_point(m.cs, m.p1, m.rep))
          [] k = 2 -> Call(m, "P2", prover_commit_to_sonny_point(m.cs, m.p2, m.rep))
          [] k = 3 -> Call(m, "P3", prover_commit_to_sonny_point(m.cs, m.p3, m.rep))
          [] k = 4 -> Put(m, "commitments",
                          m.P1.commitments \o m.P2.commitments \o m.P3.commitments)
          [] k = 5 -> Call(m, "sum", Ristretto_add(m.cs, m.P1, m.P2))
          [] k = 6 -> SetCS(m, Ristretto_equals(m.cs, m.sum, m.P3))),
        k + 1, n)

\* The statements of point_addition_verify before verify, in order.
RECURSIVE secret_addition_verify_run(_, _, _)
secret_addition_verify_run(m, k, n) ==
    IF k > n \/ m.cs.panic THEN m
    ELSE secret_addition_verify_run(
       (CASE k = 1 -> Call(m, "P1", verifier_commit_to_sonny_point(
                                        m.cs, SubSeq(m.commitments, 1, 4), m.rep))
          [] k = 2 -> Call(m, "P2", verifier_commit_to_sonny_point(
                                        m.cs, SubSeq(m.commitments, 5, 8), m.rep))
          [] k = 3 -> Call(m, "P3", verifier_commit_to_sonny_point(
                                        m.cs, SubSeq(m.commitments, 9, 12), m.rep))
          [] k = 4 -> Call(m, "sum", Ristretto_add(m.cs, m.P1, m.P2))
          [] k = 5 -> SetCS(m, Ristretto_equals(m.cs, m.sum, m.P3))),
        k + 1, n)

\* The statements of point_doubling_proof before prove, in order.
RECURSIVE secret_doubling_proof_run(_, _, _)
secret_doubling_proof_run(m, k, n) ==
    IF k > n \/ m.cs.panic THEN m
    ELSE secret_doubling_proof_run(
       (CASE k = 1 -> Call(m, "P1", prover_commit_to_sonny_point(m.cs, m.p1, m.rep))
          [] k = 2 -> Call(m, "P2", prover_commit_to_sonny_point(m.cs, m.p2, m.rep))
          [] k = 3 -> Put(m, "commitments", m.P1.commitments \o m.P2.commitments)
          [] k = 4 -> Call(m, "dbl", Ristretto_double(m.cs, m.P1))
          [] k = 5 -> SetCS(m, Ristretto_equals(m.cs, m.dbl, m.P2))),
        k + 1, n)

\* The statements of point_doubling_verify before verify, in order.
RECURSIVE secret_doubling_verify_run(_, _, _)
secret_doubling_verify_run(m, k, n) ==
    IF k > n \/ m.cs.panic THEN m
    ELSE secret_doubling_verify_run(
       (CASE k = 1 -> Call(m, "P1", verifier_commit_to_sonny_point(
                                        m.cs, SubSeq(m.commitments, 1, 4), m.rep))
          [] k = 2 -> Call(m, "P2", verifier_commit_to_sonny_point(
                                        m.cs, SubSeq(m.commitments, 5, 8), m.rep))
          [] k = 3 -> Call(m, "dbl", Ristretto_double(m.cs, m.P1))
          [] k = 4 -> SetCS(m, Ristretto_equals(m.cs, m.dbl, m.P2))),
        k + 1, n)

\* A roundtrip helper whose *_proof function built the frame pm and whose
\* *_verify function built the frame vm: a panic of a builder ends it, an
\* error of prove is returned by `?` before the verifier is run, and
\* otherwise the result is the verifier's.  The state keeps the proof and
\* the constraint system built last.
roundtrip_helper(pm, vm, capacity) ==
    /\ proof' = IF pm.cs.panic THEN NoProof ELSE Prove(pm.cs, capacity)
    /\ loc' = IF pm.cs.panic THEN <<>> ELSE pm.commitments
    /\ cs' = IF ~pm.cs.panic /\ proof'.ok THEN vm.cs ELSE pm.cs
    /\ res' = IF pm.cs.panic THEN "panic"
              ELSE IF ~proof'.ok THEN "err"
              ELSE IF vm.cs.panic THEN "panic"
              ELSE Outcome(Verify(proof', vm.cs, capacity))
    /\ pc' = "done"

\* The system point_addition_proof builds for the points of the state.
SecretAdditionProver ==
    secret_addition_proof_run([cs |-> NewCS("prover"), p1 |-> inp.p1,
                               p2 |-> inp.p2, p3 |-> inp.p3, rep |-> inp.rep], 1, 6)

\* The system point_doubling_proof builds for the points of the state.
SecretDoublingProver ==
    secret_doubling_proof_run([cs |-> NewCS("prover"), p1 |-> inp.p1,
                               p2 |-> inp.p2, rep |-> inp.rep], 1, 5)

\* point_addition_roundtrip_helper
PointAdditionRoundtrip ==
    /\ op = "point_addition" /\ pc = "start"
    /\ roundtrip_helper(SecretAdditionProver,
                        secret_addition_verify_run(
                            [cs |-> NewCS("verifier"),
                             commitments |-> SecretAdditionProver.commitments,
                             rep |-> inp.rep], 1, 5),
                        SecretAddGensCapacity)
    /\ UNCHANGED <<op, inp>>

\* point_doubling_roundtrip_helper
PointDoublingRoundtrip ==
    /\ op = "point_doubling" /\ pc = "start"
    /\ roundtrip_helper(SecretDoublingProver,
                        secret_doubling_verify_run(
                            [cs |-> NewCS("verifier"),
                             commitments |-> SecretDoublingProver.commitments,
                             rep |-> inp.rep], 1, 4),
                        SecretDoubleGensCapacity)
    /\ UNCHANGED <<op, inp>>

NextSecret == PointAdditionRoundtrip \/ PointDoublingRoundtrip

SpecSecret == InitSecret /\ [][NextSecret]_vars

\* The capacity the helper of the state's roundtrip gives its generators.
SecretGensCapacity ==
    IF op = "point_addition" THEN SecretAddGensCapacity
    ELSE SecretDoubleGensCapacity

\* C24: every roundtrip helper gives its generators a capacity of at least
\* the number of multiplication gates of the circuit it builds; the
\* roundtrip that adds secret points (three committed points, one add, one
\* equals) allocates at most the 128 gates it configures.
C24_CapacityCoversGates ==
    (pc = "done" /\ res # "panic") => GateCount(cs) <= SecretGensCapacity

\* The roundtrip that doubles a secret point stays within its capacity.
SecretDoublingWithinCapacity ==
    (op = "point_doubling" /\ pc = "done" /\ res # "panic")
        => /\ GateCount(cs) = 94
           /\ next_power_of_two(GateCount(cs)) <= SecretDoubleGensCapacity
           /\ proof.ok

\* The roundtrip that adds secret points builds 134 gates and ends with the
\* error of prove.
SecretAdditionExceedsCapacity ==
    (op = "point_addition" /\ pc = "done" /\ res # "panic")
        => /\ GateCount(cs) = 134
           /\ ~proof.ok
           /\ res = "err"

CommittingRejectsEveryPair ==
    (op = "point_committing" /\ pc = "done")
        => /\ res # "ok"
           /\ res = "panic" \/ Len(cs.cons) = Len(proof.cs.cons)
           /\ res = "panic" \/ GateCount(cs) = 2 * 40

-----------------------------------------------------------------------------
(* Transcript labels of the drivers                                        *)

GadgetFamilies ==
    {"boolean check", "conditional selection", "point addition",
     "point doubling", "subgroup check", "discrete-log knowledge"}

\* Transcript::new(label) in the *_proof and *_verify functions of a family.
transcript_label(family) ==
    CASE family = "boolean check" -> "R1CS binary check Gadget"
      [] family = "conditional selection" -> "R1CS conditional selection Gadget"
      [] family = "point addition" -> "R1CS Point Add Gadget"
      [] family = "point doubling" -> "R1CS Point Add Gadget"
      [] family = "subgroup check" -> "IsRistretto?"
      [] family = "discrete-log knowledge" -> "Sk_knowledge"

\* The transcript the doubling driver of the state proves and verifies with.
DoublingTranscript == transcript_label("point doubling")

\* C26: no two gadget families create their transcript with the same label;
\* here for the transcript of a finished point-doubling roundtrip against
\* the labels of the other five families.
C26_LabelsOnePerFamily ==
    (op = "point_doubling" /\ pc = "done")
        => \A family \in GadgetFamilies \ {"point doubling"} :
               transcript_label(family) # DoublingTranscript

\* The families other than point addition and point doubling have labels of
\* their own.
OtherLabelsDistinct ==
    (op = "point_doubling" /\ pc = "done")
        => \A f1, f2 \in GadgetFamilies \ {"point doubling"} :
               f1 # f2 => transcript_label(f1) # transcript_label(f2)

-----------------------------------------------------------------------------
(* The identity as an operand of the addition gadgets                      *)

\* The point SonnyRistrettoPointGadget::add returned in the state, under
\* the assignment of its constraint system.
RistrettoSum == PointEval(cs, loc)

\* SonnyEdwardsPointGadget::add on the constants of two points.
EdwardsSum(e1, e2) ==
    Returned(Edwards_add(NewCS("prover"), Edwards_from_point(e1),
                         Edwards_from_point(e2)))

\* C28: for every curve point P in any scaling, add(P, (0,1,1,0)) and
\* add((0,1,1,0), P) return points that represent the affine point of P, and
\* double((0,1,1,0)) returns a point that represents the identity (for the
\* add and double of SonnyRistrettoPointGadget and SonnyEdwardsPointGadget).
C28_IdentityIsNeutral ==
    (op = "ristretto_add" /\ pc = "done")
        => /\ inp.p2 = IdentityExt
                => /\ Satisfied(cs)
                   /\ SameAffine(RistrettoSum, inp.p1)
                   /\ SameAffine(EdwardsSum(inp.p1, IdentityExt), inp.p1)
           /\ inp.p1 = IdentityExt
                => /\ Satisfied(cs)
                   /\ SameAffine(RistrettoSum, inp.p2)
                   /\ SameAffine(EdwardsSum(IdentityExt, inp.p2), inp.p2)
           /\ (inp.p1 = IdentityExt /\ inp.p2 = IdentityExt)
                => /\ Represents(Returned(Ristretto_double(NewCS("prover"),
                                              IdentityGadget)), Identity)
                   /\ Represents(Returned(Edwards_double(NewCS("prover"),
                                              IdentityGadget)), Identity)
                   /\ Represents(RistrettoSum, Identity)

C28_Witness ==
    /\ op = "ristretto_add" /\ pc = "done"
    /\ inp.p2 = IdentityExt /\ inp.p1.Z = 2
    /\ Affine(inp.p1) = FullOrderPoint
    /\ RistrettoSum # inp.p1
    /\ SameAffine(RistrettoSum, inp.p1)

-----------------------------------------------------------------------------
(* point_addition_gadget called with the parameters of other curves        *)

\* Twisted Edwards parameters (a, d) over the model's field with a a square
\* and d not a square: the curve of the library and two others.
CurveParameters == {<<EDWARDS_A, EDWARDS_D>>, <<1, 3>>, <<2, 7>>}

\* (x, y) is on the curve a*x^2 + y^2 = 1 + d*x^2*y^2.
OnCurveWith(a, d, pt) ==
    FAdd(FMul(a, FMul(pt[1], pt[1])), FMul(pt[2], pt[2]))
        = FAdd(1, FMul(d, FMul(FMul(pt[1], pt[1]), FMul(pt[2], pt[2]))))

PointsOf(a, d) == {pt \in Fq \X Fq : OnCurveWith(a, d, pt)}

\* The affine addition law of the curve with parameters (a, d).
RefAddOn(a, d, p1, p2) ==
    <<FMul(FAdd(FMul(p1[1], p2[2]), FMul(p1[2], p2[1])),
           FInv(FAdd(1, FMul(d, FMul(FMul(p1[1], p2[1]), FMul(p1[2], p2[2])))))),
      FMul(FSub(FMul(p1[2], p2[2]), FMul(a, FMul(p1[1], p2[1]))),
           FInv(FSub(1, FMul(d, FMul(FMul(p1[1], p2[1]), FMul(p1[2], p2[2]))))))>>

InitCurves ==
    /\ op = "point_addition_gadget"
    /\ \E ad \in CurveParameters :
           \E p1 \in PointsOf(ad[1], ad[2]), p2 \in PointsOf(ad[1], ad[2]),
              z \in ZScales :
               inp = [p1 |-> Ext(p1, z), p2 |-> Ext(p2, 1), a |-> ad[1],
                      d |-> ad[2]]
    /\ pc = "start"
    /\ cs = NewCS("verifier")
    /\ loc = <<>>
    /\ proof = NoProof
    /\ res = "none"

\* point_addition_gadget called by a prover on the constants of two points
\* and of the parameters.
PointAdditionGadget ==
    /\ op = "point_addition_gadget" /\ pc = "start"
    /\ ristretto_add_called(
           point_addition_gadget(NewCS("prover"), point_coords_to_LC(inp.p1),
                                 point_coords_to_LC(inp.p2),
                                 LCConst(fq_as_scalar(inp.d)),
                                 LCConst(fq_as_scalar(inp.a))))
    /\ pc' = "done"
    /\ UNCHANGED <<op, inp, proof, res>>

NextCurves == PointAdditionGadget

SpecCurves == InitCurves /\ [][NextCurves]_vars

\* The sum of the state's points on the curve of the state's parameters.
SumOnGivenCurve == RefAddOn(inp.a, inp.d, Affine(inp.p1), Affine(inp.p2))

\* C29: for every pair of parameters (a, d) passed to point_addition_gadget
\* and every two points on the curve with those parameters, the returned
\* point represents the sum of the two points on that curve.
C29_AdditionCorrectForGivenParameters ==
    (op = "point_addition_gadget" /\ pc = "done")
        => Represents(PointValue(cs, loc), SumOnGivenCurve)

\* The gadget is correct for a = -1, the parameter of the library's curve.
AdditionCorrectForMinusOne ==
    (op = "point_addition_gadget" /\ pc = "done" /\ inp.a = FNeg(1))
        => /\ Satisfied(cs)
           /\ Represents(PointValue(cs, loc), SumOnGivenCurve)

-----------------------------------------------------------------------------
(* The linear constraints add emits for E1, E2, E, F, G and H              *)

\* The statements of add that call cs.constrain, by their position among the
\* statements of the gadget: for E1, E2, E, F, G and H.
RetieSteps == {7, 9, 14, 16, 18, 20}

\* The operands of the additions examined: the constants of the state's two
\* points on a new system, and the wires of the point add returned in the
\* state, added to the second point on the state's system.
AddFrames ==
    {[cs |-> NewCS("prover"), self |-> point_coords_to_LC(inp.p1),
      other |-> point_coords_to_LC(inp.p2)],
     [cs |-> cs, self |-> loc, other |-> point_coords_to_LC(inp.p2)]}

\* The constraint the k-th statement of SonnyRistrettoPointGadget::add adds.
RistrettoRetie(m, k) ==
    Ristretto_add_run(m, 1, k).cs.cons[Len(Ristretto_add_run(m, 1, k).cs.cons)]

\* The constraint the k-th statement of SonnyEdwardsPointGadget::add adds.
EdwardsRetie(m, k) ==
    Edwards_add_run(m, 1, k).cs.cons[Len(Edwards_add_run(m, 1, k).cs.cons)]

\* The constraints that tie the inputs of the gates of A and B to their
\* wires: left and right of A, left and right of B.
EdwardsWiring(m) ==
    SubSeq(Edwards_add_run(m, 1, 2).cs.cons, Len(m.cs.cons) + 1,
           Len(m.cs.cons) + 4)

\* Every variable has weight zero: the constraint holds under every
\* assignment.
IdenticallyZero(l) == SameWeights(l, <<>>)

\* The constraint system of an addition without the constraints of the
\* statements in RetieSteps (the linear constraints that are not those of a
\* gate's inputs).
WithoutReties(c) ==
    [c EXCEPT !.cons = SelectSeq(c.cons, LAMBDA l : ~IdenticallyZero(l))]

\* C30: each linear constraint that add emits for E1, E2, E, F, G and H has
\* weight zero on every variable, or is implied by the constraints of the
\* multiplication gates (it has the weights of a sum of them), so the
\* satisfying assignments are the same with and without these constraints.
C30_RetieConstraintsAddNoRestriction ==
    (op = "ristretto_add" /\ pc = "done")
        => \A m \in AddFrames :
               /\ \A k \in RetieSteps : IdenticallyZero(RistrettoRetie(m, k))
               /\ \A k \in RetieSteps \ {7, 9} :
                      IdenticallyZero(EdwardsRetie(m, k))
               /\ SameWeights(EdwardsRetie(m, 7), EdwardsWiring(m)[1])
               /\ SameWeights(EdwardsRetie(m, 9),
                              LCAdd(EdwardsWiring(m)[2], EdwardsWiring(m)[4]))
               /\ Satisfied(WithoutReties(Ristretto_add_run(m, 1, 24).cs))
                      <=> Satisfied(Ristretto_add_run(m, 1, 24).cs)

C30_Witness ==
    /\ op = "ristretto_add" /\ pc = "done"
    /\ Affine(inp.p1) = FullOrderPoint /\ Affine(inp.p2) = FullOrderPoint
    /\ Len(cs.cons) = 2 * 12 + 6
    /\ Len(WithoutReties(cs).cons) = 2 * 12
    /\ \A k \in RetieSteps :
           RistrettoRetie([cs |-> cs, self |-> loc,
                           other |-> point_coords_to_LC(inp.p2)], k) # <<>>

====
